---------------------------- MODULE Spec2Model ----------------------------
(***************************************************************************)
(* A model of the lexing toolkit of src/index.ts: the Tokenizer (ordered   *)
(* regex rules, a stack of lexer states, a bounded peek window) and the    *)
(* Combiner (a stack of pending token lists reduced at END tokens), the    *)
(* in-memory iterators (BufferIterator, StringIterator, ArrayIterator),    *)
(* the Source-backed iterators that read a Source block by block, the      *)
(* Sources of src/browser.ts and src/fs.js, the MachineState with its      *)
(* read() loop and its sub-states, and the Buffer functions of             *)
(* src/buffer.ts.                                                          *)
(*                                                                         *)
(* JavaScript values are records [t, v]: t is the type tag, v the payload. *)
(* A string that is only compared or concatenated is a TLA+ string; the    *)
(* backing string of a StringIterator, and every window cut from it, is a  *)
(* sequence of one-character strings, so that it can be sliced.            *)
(***************************************************************************)
EXTENDS Integers, Sequences, FiniteSets, TLC

VARIABLES
  tokenizer,   \* the Tokenizer: [default_rules, state_rules, peek_length]
  arrays,      \* the heap of string[] objects: array id -> its contents
  passed,      \* array id -> the contents it had when it was handed to map()
  iterable,    \* stream -> its StringIterator, [_string, position]
  states,      \* stream -> the id of the array that is its state stack
  pc,          \* stream -> "idle" | "running" (inside the loop of next())
  calls,       \* stream -> number of calls of the public next()
  out,         \* stream -> the tokens the public next() has returned
  last,        \* stream -> what the latest _next() step did
  combiner,    \* the Combiner: [rules]
  source,      \* the ArrayIterator the Combiner stream pulls tokens from
  stack,       \* the Combiner stream's stack of pending token lists
  emitted,     \* the tokens the Combiner stream's next() has returned
  reductions,  \* the reductions made so far: [end, name, tokens]
  failure,     \* how the latest call of the Combiner stream's next() ended
  memory,      \* an in-memory iterator: [class, it, start]
  call,        \* the latest call made on the in-memory iterator
  run,         \* the chunks of the next() calls since the latest skip()
  file,        \* a Source: [class, bytes]
  reader,      \* a Source-backed iterator over file
  twin,        \* a BufferIterator over the bytes of file, given the same calls
  scall,       \* the latest call made on file or on reader (and on twin)
  taken,       \* the characters next() returned and skip() passed, in order
  machine,     \* a MachineState: [rules, value, iterable, peek_length]
  mpc,         \* "idle" | "running" (inside read()) | "returned" | "threw"
  mlog,        \* what the latest iteration of the loop of read() did
  mout,        \* the values read() has returned
  bcall,       \* the latest call of a function of src/buffer.ts
  heap,        \* the StringIterator objects: reference -> [_string, position]
  parent,      \* a MachineState whose iterable is a reference into heap
  child,       \* the sub-state parent.attachState() created, if any
  apc,         \* who runs: "parent" | "attached" | "sub" | "returned" | "threw"
  alog         \* what the latest step of the parent or of its sub-state did

tvars == <<tokenizer, arrays, passed, iterable, states, pc, calls, out, last>>
cvars == <<combiner, source, stack, emitted, reductions, failure>>
ivars == <<memory, call, run>>
svars == <<file, reader, twin, scall, taken>>
mvars == <<machine, mpc, mlog, mout>>
bvars == <<bcall>>
avars == <<heap, parent, child, apc, alog>>

---------------------------------------------------------------------------
(* Bounds of the model.                                                    *)

\* the longest input string
MaxLen == 3
\* the longest input string when two streams run side by side
MaxLenTwo == 2
\* how many times a consumer calls next() on one stream
MaxCalls == 4
\* a peek window shorter than the longest input
SmallPeek == 2
\* the longest token array given to a Combiner stream, its final EOF aside
MaxTokens == 5
\* the largest length asked of peek(length), next(length) and skip(length)
MaxRequest == 4
\* how far beyond its array a consumer keeps calling ArrayIterator.next()
MaxBeyond == 2
\* the largest block size of a Source-backed iterator, the default aside
MaxBlock == 2
\* the iterations of the loop of read() that are followed: more than any
\* input lets a loop that consumes in every iteration make
MaxIterations == MaxLen + 3

\* BufferedSourceReader's default block_size
DefaultBlockSize == 1024

\* Tokenizer's default peek_length
DefaultPeekLength == 256

---------------------------------------------------------------------------
(* JavaScript values.                                                      *)

Null == [t |-> "null", v |-> 0]
Undefined == [t |-> "undefined", v |-> 0]
Str(s) == [t |-> "string", v |-> s]
Arr(xs) == [t |-> "array", v |-> xs]

\* function Token(name, value = null): {name: name, value: value}
Token(name, value) ==
  [t |-> "object",
   v |-> [name |-> name, value |-> IF value = Undefined THEN Null ELSE value]]

Min(a, b) == IF a < b THEN a ELSE b
Max(a, b) == IF a > b THEN a ELSE b

\* the JavaScript string spelled by a sequence of characters
RECURSIVE Text(_)
Text(chars) == IF chars = <<>> THEN "" ELSE Head(chars) \o Text(Tail(chars))

\* all sequences over S of length at most n
RECURSIVE SeqsUpTo(_, _)
SeqsUpTo(S, n) ==
  IF n = 0 THEN {<<>>}
  ELSE LET shorter == SeqsUpTo(S, n - 1)
       IN  shorter \cup {Append(q, c) : q \in shorter, c \in S}

---------------------------------------------------------------------------
(* StringIterator.                                                         *)

WordChars == {"a", "b"}
SpaceChars == {" "}
Chars == WordChars \cup SpaceChars \cup {"!", "("}

StringIterator(string, position) == [_string |-> string, position |-> position]

\* String.prototype.slice(start, end) for 0 <= start
slice(string, start, end) == SubSeq(string, start + 1, Min(end, Len(string)))

StringIterator_size(it) == Len(it._string)

\* a peek that hands over all that is left of the string
StringIterator_peek_rest(it, length) ==
  slice(it._string, it.position, Len(it._string))

StringIterator_peek(it, length) ==
  slice(it._string, it.position, it.position + length)

\* a skip that trusts the requested length
StringIterator_skipped_unclamped(it, length) == length

\* skip returns the number of skipped characters; the iterator after it
StringIterator_skipped(it, length) ==
  Min(length, Len(it._string) - it.position)

\* a skip that leaves the cursor where it is
StringIterator_skip_nothing(it, length) == it

StringIterator_skip(it, length) ==
  [it EXCEPT !.position = it.position + StringIterator_skipped(it, length)]

\* a next that advances by the requested length, not by chunk.length
StringIterator_next_by_request(it, length) ==
  [it |-> [it EXCEPT !.position = it.position + length],
   chunk |-> slice(it._string, it.position, it.position + length)]

\* next(length): the chunk, and the iterator advanced by chunk.length
StringIterator_next(it, length) ==
  LET chunk == slice(it._string, it.position, it.position + length) IN
    [it |-> [it EXCEPT !.position = it.position + Len(chunk)],
     chunk |-> chunk]

---------------------------------------------------------------------------
(* BufferIterator: a Buffer is a sequence of bytes.                        *)

\* the bytes of the texts read from a Source: "a", and the two bytes of a
\* two-byte UTF-8 character
Bytes == {97, 195, 169}

BufferIterator(buffer, position) == [_buffer |-> buffer, position |-> position]

\* Buffer.prototype.slice(start, end) for 0 <= start
Buffer_slice(buffer, start, end) ==
  SubSeq(buffer, start + 1, Min(end, Len(buffer)))

BufferIterator_size(it) == Len(it._buffer)

\* a peek that takes the length for the end index of the slice
BufferIterator_peek_to_length(it, length) ==
  Buffer_slice(it._buffer, it.position, length)

BufferIterator_peek(it, length) ==
  Buffer_slice(it._buffer, it.position, it.position + length)

BufferIterator_next(it, length) ==
  LET buffer == Buffer_slice(it._buffer, it.position, it.position + length) IN
    [it |-> [it EXCEPT !.position = it.position + Len(buffer)],
     chunk |-> buffer]

\* a skip that trusts the requested length
BufferIterator_skipped_unclamped(it, length) == length

\* bytesSkipped
BufferIterator_skipped(it, length) ==
  Min(length, Len(it._buffer) - it.position)

BufferIterator_skip(it, length) ==
  [it EXCEPT !.position = it.position + BufferIterator_skipped(it, length)]

---------------------------------------------------------------------------
(* Regular expressions of the rules, and String.prototype.match.           *)
(*   empty: /^$/     one: /^[cls]/     plus: /^[cls]+/                     *)
(*   three: /^[cls]{3}/                                                    *)

RegExp(kind, cls) == [kind |-> kind, cls |-> cls]

RECURSIVE RunLength(_, _)
RunLength(input, cls) ==
  IF input # <<>> /\ Head(input) \in cls
  THEN 1 + RunLength(Tail(input), cls)
  ELSE 0

\* input.match(re): <<>> for null, else << match[0] >>
match(input, re) ==
  CASE re.kind = "empty" -> IF input = <<>> THEN << <<>> >> ELSE <<>>
    [] re.kind = "one" ->
         IF input # <<>> /\ Head(input) \in re.cls
         THEN << SubSeq(input, 1, 1) >> ELSE <<>>
    [] re.kind = "plus" ->
         IF RunLength(input, re.cls) > 0
         THEN << SubSeq(input, 1, RunLength(input, re.cls)) >> ELSE <<>>
    [] re.kind = "three" ->
         IF RunLength(input, re.cls) >= 3
         THEN << SubSeq(input, 1, 3) >> ELSE <<>>
    [] re.kind = "star" -> << SubSeq(input, 1, RunLength(input, re.cls)) >>

---------------------------------------------------------------------------
(* Rule actions: closures called with the stream as `this`.  An action may *)
(* push to or pop from this.states, and returns a token, null or undefined.*)

Action(effect, arg, returns, name) ==
  [effect |-> effect, arg |-> arg, returns |-> returns, name |-> name]

\* Array.prototype.push / pop on the state stack
push(state_stack, x) == Append(state_stack, x)
pop(state_stack) ==
  IF state_stack = <<>> THEN <<>>
  ELSE SubSeq(state_stack, 1, Len(state_stack) - 1)

\* a call after which the Tokenizer pops the state of every rule whose
\* action left the stack alone
RegexAction_call_pops(action, m, state_stack) ==
  [stack |-> CASE action.effect = "push" -> push(state_stack, action.arg)
               [] OTHER -> pop(state_stack),
   token |-> CASE action.returns = "null" -> Null
               [] action.returns = "undefined" -> Undefined
               [] action.returns = "nullname" -> Token(Null, Null)
               [] action.returns = "name" -> Token(Str(action.name), Undefined)
               [] action.returns = "text" ->
                    Token(Str(action.name), Str(Text(m[1])))]

\* rule[1].call(this, match): the state stack after it, and what it returns
RegexAction_call(action, m, state_stack) ==
  [stack |-> CASE action.effect = "push" -> push(state_stack, action.arg)
               [] action.effect = "pop" -> pop(state_stack)
               [] OTHER -> state_stack,
   token |-> CASE action.returns = "null" -> Null
               [] action.returns = "undefined" -> Undefined
               [] action.returns = "nullname" -> Token(Null, Null)
               [] action.returns = "name" -> Token(Str(action.name), Undefined)
               [] action.returns = "text" ->
                    Token(Str(action.name), Str(Text(m[1])))]

RE_EOF == RegExp("empty", {})
RE_SPACES == RegExp("plus", SpaceChars)
RE_WORD == RegExp("plus", WordChars)
RE_WORDCHAR == RegExp("one", WordChars)
RE_BANG == RegExp("one", {"!"})
RE_PAREN == RegExp("one", {"("})
RE_TRIPLE == RegExp("three", WordChars)
RE_OPTIONAL_SPACES == RegExp("star", SpaceChars)

\* the rules of tests/simple.ts
SimpleRules ==
  << <<RE_EOF, Action("none", "", "name", "EOF")>>,
     <<RE_SPACES, Action("none", "", "null", "")>>,
     <<RE_WORD, Action("none", "", "text", "WORD")>> >>

\* overlapping rules: /^\w/ stands before /^\w+/, which matches longer texts
OverlapRules ==
  << <<RE_WORDCHAR, Action("none", "", "text", "CHAR")>>,
     <<RE_WORD, Action("none", "", "text", "WORD")>>,
     <<RE_SPACES, Action("none", "", "nullname", "")>>,
     <<RE_EOF, Action("none", "", "name", "EOF")>>,
     <<RE_BANG, Action("none", "", "undefined", "")>> >>

\* a rule whose pattern /^\w{3}/ needs three units of input
TripleRules ==
  << <<RE_EOF, Action("none", "", "name", "EOF")>>,
     <<RE_TRIPLE, Action("none", "", "text", "TRIPLE")>> >>

\* rules with an exclusive state "paren"; "missing" is registered nowhere
OuterRules ==
  << <<RE_EOF, Action("none", "", "name", "EOF")>>,
     <<RE_PAREN, Action("push", "paren", "null", "")>>,
     <<RE_WORD, Action("none", "", "text", "WORD")>>,
     <<RE_SPACES, Action("none", "", "null", "")>> >>

ParenRules ==
  << <<RE_BANG, Action("pop", "", "name", "CLOSE")>>,
     <<RE_PAREN, Action("push", "paren", "name", "OPEN")>>,
     <<RE_WORD, Action("none", "", "text", "INNER")>>,
     <<RE_SPACES, Action("push", "missing", "null", "")>> >>

\* new Tokenizer(default_rules, state_rules = {}, peek_length = 256)
Tokenizer(default_rules, state_rules, peek_length) ==
  [default_rules |-> default_rules,
   state_rules |-> state_rules,
   peek_length |-> peek_length]

NoStateRules == [name \in {} |-> <<>>]

Tokenizers ==
  { Tokenizer(r[1], r[2], n) :
      r \in { <<SimpleRules, NoStateRules>>,
              <<OverlapRules, NoStateRules>>,
              <<TripleRules, NoStateRules>>,
              <<OuterRules, [name \in {"paren"} |-> ParenRules]>> },
      n \in {SmallPeek, DefaultPeekLength} }

InitialStates == { <<>>, <<"paren">>, <<"missing">> }

---------------------------------------------------------------------------
(* Tokenizer and TokenizerIterator.                                        *)

\* this.states[this.states.length - 1]: <<>> for undefined, else <<name>>
top(state_stack) ==
  IF state_stack = <<>> THEN <<>> ELSE << state_stack[Len(state_stack)] >>

\* getRules(state_name): <<>> for undefined, else <<rules>>
getRules_or_default(tk, state_name) ==
  IF state_name = <<>> \/ state_name[1] \notin DOMAIN tk.state_rules
  THEN << tk.default_rules >>
  ELSE << tk.state_rules[state_name[1]] >>

getRules_inclusive(tk, state_name) ==
  IF state_name = <<>> THEN << tk.default_rules >>
  ELSE IF state_name[1] \in DOMAIN tk.state_rules
       THEN << tk.state_rules[state_name[1]] \o tk.default_rules >>
       ELSE <<>>

getRules(tk, state_name) ==
  IF state_name = <<>> THEN << tk.default_rules >>
  ELSE IF state_name[1] \in DOMAIN tk.state_rules
       THEN << tk.state_rules[state_name[1]] >>
       ELSE <<>>

\* a loop that is not entered once the window is empty
RECURSIVE FirstMatchingRule_until_end(_, _, _)
FirstMatchingRule_until_end(rules, input, i) ==
  IF input = <<>> \/ i > Len(rules) THEN 0
  ELSE IF match(input, rules[i][1]) # <<>> THEN i
       ELSE FirstMatchingRule_until_end(rules, input, i + 1)

\* the for loop of _next: the first index from i on whose pattern matches,
\* 0 when the rules run out
RECURSIVE LastMatchingRule(_, _, _)
LastMatchingRule(rules, input, i) ==
  IF i > Len(rules) THEN 0
  ELSE IF LastMatchingRule(rules, input, i + 1) # 0
       THEN LastMatchingRule(rules, input, i + 1)
       ELSE IF match(input, rules[i][1]) # <<>> THEN i ELSE 0

RECURSIVE FirstMatchingRule(_, _, _)
FirstMatchingRule(rules, input, i) ==
  IF i > Len(rules) THEN 0
  ELSE IF match(input, rules[i][1]) # <<>> THEN i
       ELSE FirstMatchingRule(rules, input, i + 1)

\* match[0].length, the number of characters _next skips
match_array_length(m) == Len(m)

matched_length(m) == Len(m[1])

\* the test of next() on the token _next returned: token.name of undefined
\* throws, a null token or a null name loops again
next_returns_null_named(token) ==
  IF token = Undefined THEN "throw"
  ELSE IF token # Null THEN "return" ELSE "discard"

next_test(token) ==
  IF token = Undefined THEN "throw"
  ELSE IF token # Null /\ token.v.name # Null THEN "return" ELSE "discard"

NoStep ==
  [step |-> "none", state |-> <<>>, rules |-> <<>>, input |-> <<>>, i |-> 0,
   before |-> 0, stack |-> <<>>, token |-> Undefined, outcome |-> "none",
   skips |-> <<>>, called_at |-> 0]

\* no rule matched: throw new Error(`Invalid language; ...`)
no_match_skips(it, state_stack, seen) ==
  [it |-> StringIterator_skip(it, 1), stack |-> state_stack,
   log |-> [seen EXCEPT !.step = "nomatch", !.outcome = "discard"]]

no_match(it, state_stack, seen) ==
  [it |-> it, stack |-> state_stack,
   log |-> [seen EXCEPT !.step = "nomatch", !.outcome = "throw"]]

\* an action called while the cursor still stands before the match
iterable_at_call_unskipped(it, skipped) == it

\* this.iterable as the action finds it: skip() has returned before
\* rule[1].call(this, match) is evaluated
iterable_at_call(it, skipped) == skipped

\* One run of _next() on iterator `it` with state stack `state_stack`, followed by
\* the test of next() on its result.  outcome is what next() does then:
\*   "throw" (the error leaves next()), "discard" (loop again), "return".
_next(tk, it, state_stack) ==
  LET state == top(state_stack)
      rules == getRules(tk, state)
      input == StringIterator_peek(it, tk.peek_length)
      seen  == [NoStep EXCEPT !.state = state, !.rules = rules,
                              !.input = input, !.before = it.position,
                              !.stack = state_stack]
  IN
  IF rules = <<>>
  THEN \* rules[i] on undefined: TypeError
       [it |-> it, stack |-> state_stack,
        log |-> [seen EXCEPT !.step = "norules", !.outcome = "throw"]]
  ELSE
    LET i == FirstMatchingRule(rules[1], input, 1) IN
    IF i = 0
    THEN no_match(it, state_stack, seen)
    ELSE
      LET m == match(input, rules[1][i][1])
          skipped == StringIterator_skip(it, matched_length(m))
          called == RegexAction_call(rules[1][i][2], m, state_stack)
          token == called.token
      IN [it |-> skipped, stack |-> called.stack,
          log |-> [seen EXCEPT
                     !.step = "match", !.i = i, !.token = token,
                     !.outcome = next_test(token),
                     !.skips = <<matched_length(m)>>,
                     !.called_at = iterable_at_call(it, skipped).position]]

\* a map() that keeps one state stack for all the streams of a Tokenizer
Tokenizer_map_shared(it, states_ref) == [iterable |-> it, states |-> 1]

\* Tokenizer.map(iterable, states): the stream holds the array it is given
Tokenizer_map(it, states_ref) == [iterable |-> it, states |-> states_ref]

Streams == DOMAIN pc

\* the public next() is entered
next(s) ==
  /\ pc[s] = "idle"
  /\ calls[s] < MaxCalls
  /\ pc' = [pc EXCEPT ![s] = "running"]
  /\ calls' = [calls EXCEPT ![s] = @ + 1]
  /\ last' = [last EXCEPT ![s] = NoStep]
  /\ UNCHANGED <<tokenizer, arrays, passed, iterable, states, out>>
  /\ UNCHANGED <<cvars, ivars, svars, mvars, bvars, avars>>

\* one iteration of the loop of next(): _next() and the test of its token
next_loop(s) ==
  /\ pc[s] = "running"
  /\ LET r == _next(tokenizer, iterable[s], arrays[states[s]]) IN
       /\ iterable' = [iterable EXCEPT ![s] = r.it]
       /\ arrays' = [arrays EXCEPT ![states[s]] = r.stack]
       /\ last' = [last EXCEPT ![s] = r.log]
       /\ pc' = [pc EXCEPT ![s] = IF r.log.outcome = "discard"
                                  THEN "running" ELSE "idle"]
       /\ out' = [out EXCEPT ![s] = IF r.log.outcome = "return"
                                    THEN Append(@, r.log.token) ELSE @]
  /\ UNCHANGED <<tokenizer, passed, states, calls>>
  /\ UNCHANGED <<cvars, ivars, svars, mvars, bvars, avars>>

---------------------------------------------------------------------------
(* ArrayIterator.                                                          *)

ArrayIterator(array, position) == [_array |-> array, position |-> position]

\* next(): this._array[this.position++], undefined beyond the end
ArrayIterator_next_preincrement(it) ==
  [it |-> [it EXCEPT !.position = it.position + 1],
   value |-> IF it.position + 2 \in 1..Len(it._array)
             THEN it._array[it.position + 2] ELSE Undefined]

ArrayIterator_next(it) ==
  [it |-> [it EXCEPT !.position = it.position + 1],
   value |-> IF it.position + 1 \in 1..Len(it._array)
             THEN it._array[it.position + 1] ELSE Undefined]

ArrayIterator_size(it) == Len(it._array)

\* peek(): this._array[this.position + 1], undefined beyond the end
ArrayIterator_peek(it) ==
  IF it.position + 2 \in 1..Len(it._array)
  THEN it._array[it.position + 2] ELSE Undefined

\* skip(): whether the iterator moved, and the iterator after it
ArrayIterator_skip(it) ==
  IF it.position < Len(it._array)
  THEN [it |-> [it EXCEPT !.position = it.position + 1], moved |-> TRUE]
  ELSE [it |-> it, moved |-> FALSE]

---------------------------------------------------------------------------
(* Combiner rules: [name, action]; the action maps the popped token list   *)
(* to one token.                                                           *)
(*   join:  tokens => Token(name, tokens.map(t => t.value).join(''))       *)
(*   list:  tokens => Token(name, tokens.map(t => t.value))                *)
(*   const: tokens => token                                                *)

\* Array.prototype.join(separator): null and undefined elements give "",
\* an element that is an array is joined with ","
RECURSIVE join(_, _)
join(values, separator) ==
  IF values = <<>> THEN ""
  ELSE LET first == values[1]
           text == CASE first.t = "string" -> first.v
                     [] first.t = "array" -> join(first.v, ",")
                     [] first.t = "object" -> "[object Object]"
                     [] OTHER -> ""
       IN IF Len(values) = 1 THEN text
          ELSE text \o separator \o join(Tail(values), separator)

\* tokens.map(token => token.value)
values_of(tokens) == [k \in 1..Len(tokens) |-> tokens[k].v.value]

CombinerAction(kind, name, token) ==
  [kind |-> kind, name |-> name, token |-> token]

\* rule[1](tokens); `tokens` is << the list >>, or <<>> for undefined, on
\* which only a const action does not throw
CombinerAction_call(action, tokens) ==
  CASE action.kind = "join" ->
         Token(Str(action.name), Str(join(values_of(tokens[1]), "")))
    [] action.kind = "list" ->
         Token(Str(action.name), Arr(values_of(tokens[1])))
    [] action.kind = "const" -> action.token

\* the rules of tests/simple.ts
TestCombinerRules ==
  << <<"STRING", CombinerAction("join", "STRING", Null)>>,
     <<"ARRAY", CombinerAction("list", "ARRAY", Null)>> >>

\* new Combiner(rules)
Combiner(rules) == [rules |-> rules]

\* the Combiner of the tests, and two that also register a rule "X" whose
\* result is itself a START token, or an END token
Combiners ==
  { Combiner(TestCombinerRules),
    Combiner(Append(TestCombinerRules,
       <<"X", CombinerAction("const", "", Token(Str("START"), Str("X")))>>)),
    Combiner(Append(TestCombinerRules,
       <<"X", CombinerAction("const", "", Token(Str("END"), Str("X")))>>)) }

InputTokens ==
  { Token(Str("CHAR"), Str("A")),
    Token(Str("START"), Str("STRING")),
    Token(Str("START"), Str("ARRAY")),
    Token(Str("END"), Str("STRING")),
    Token(Str("END"), Str("ARRAY")),
    Token(Str("END"), Str("X")) }

EOFToken == Token(Str("EOF"), Null)

\* the same Combiners, and one whose rule "X" returns an EOF token
CombinersWithEOF ==
  Combiners \cup
    { Combiner(Append(TestCombinerRules,
         <<"X", CombinerAction("const", "", EOFToken)>>)) }

---------------------------------------------------------------------------
(* Combiner and CombinerIterator.                                          *)

\* findRule(name): <<>> when it throws `No combiner rule found`, else <<rule>>
RECURSIVE findRule_from(_, _, _)
findRule_from(rules, name, i) ==
  IF i > Len(rules) THEN <<>>
  ELSE IF Str(rules[i][1]) = name THEN << rules[i] >>
       ELSE findRule_from(rules, name, i + 1)

\* a lookup that settles for the first rule, whatever its name
findRule_first(cb, name) ==
  IF cb.rules = <<>> THEN <<>> ELSE << cb.rules[1] >>

findRule(cb, name) == findRule_from(cb.rules, name, 1)

\* Array.prototype.pop on the stack of lists; value is <<>> for undefined
\* (the stack was empty), else << the popped list >>
Array_shift(lists) ==
  IF lists = <<>> THEN [array |-> <<>>, value |-> <<>>]
  ELSE [array |-> Tail(lists), value |-> << Head(lists) >>]

\* a pop that hands out the last list and leaves it on the stack
Array_pop_keeps(lists) ==
  IF lists = <<>> THEN [array |-> <<>>, value |-> <<>>]
  ELSE [array |-> lists, value |-> << lists[Len(lists)] >>]

Array_pop(lists) ==
  IF lists = <<>> THEN [array |-> <<>>, value |-> <<>>]
  ELSE [array |-> SubSeq(lists, 1, Len(lists) - 1),
        value |-> << lists[Len(lists)] >>]

\* the branch of next() taken for an END token: pop, findRule, reduce.
\* threw is "" when the branch ran to its end
END_branch_finds_before_pop(cb, lists, token) ==
  LET popped == Array_pop(lists)
      rule == findRule(cb, token.v.value)
  IN IF rule = <<>>
     THEN [threw |-> "No combiner rule found", stack |-> lists,
           tokens |-> <<>>, token |-> Undefined]
     ELSE IF popped.value = <<>> /\ rule[1][2].kind # "const"
          THEN [threw |-> "TypeError", stack |-> popped.array,
                tokens |-> popped.value, token |-> Undefined]
          ELSE [threw |-> "", stack |-> popped.array,
                tokens |-> popped.value,
                token |-> CombinerAction_call(rule[1][2], popped.value)]

END_branch(cb, lists, token) ==
  LET popped == Array_pop(lists)
      rule == findRule(cb, token.v.value)
  IN IF rule = <<>>
     THEN [threw |-> "No combiner rule found", stack |-> popped.array,
           tokens |-> popped.value, token |-> Undefined]
     ELSE IF popped.value = <<>> /\ rule[1][2].kind # "const"
          THEN \* tokens.map on undefined
               [threw |-> "TypeError", stack |-> popped.array,
                tokens |-> popped.value, token |-> Undefined]
          ELSE [threw |-> "", stack |-> popped.array,
                tokens |-> popped.value,
                token |-> CombinerAction_call(rule[1][2], popped.value)]

\* what a call of next() leaves behind
Ended(src, lists, log, threw, token) ==
  [source |-> src, stack |-> lists, reductions |-> log,
   threw |-> threw, token |-> token]

\* CombinerIterator.next(), with its recursive calls.  `log` collects the
\* reductions: the place of the END token, the rule name, the list reduced
\* (as Array_pop gives it) and the token the rule returned.
RECURSIVE CombinerIterator_next(_, _, _, _)
CombinerIterator_next(cb, src, lists, log) ==
  LET pulled == ArrayIterator_next(src)
      token == pulled.value
  IN
  IF token = Undefined
  THEN \* token.name on undefined
       Ended(pulled.it, lists, log, "TypeError", Undefined)
  ELSE
    LET isEND == token.v.name = Str("END")
        branch == END_branch(cb, lists, token)
        log2 == IF isEND /\ branch.threw = ""
                THEN Append(log, [end |-> pulled.it.position,
                                  name |-> token.v.value,
                                  tokens |-> branch.tokens,
                                  token |-> branch.token])
                ELSE log
        lists2 == IF isEND THEN branch.stack ELSE lists
        token2 == IF isEND THEN branch.token ELSE token
    IN
    IF isEND /\ branch.threw # ""
    THEN Ended(pulled.it, lists2, log2, branch.threw, Undefined)
    ELSE IF token2.v.name = Str("START")
         THEN CombinerIterator_next(cb, pulled.it, Append(lists2, <<>>), log2)
         ELSE IF Len(lists2) > 0
              THEN CombinerIterator_next(
                     cb, pulled.it,
                     [lists2 EXCEPT ![Len(lists2)] = Append(@, token2)], log2)
              ELSE Ended(pulled.it, lists2, log2, "", token2)

\* a consumer that calls next() once and never again
Combiner_next_once ==
  /\ source.position = 0
  /\ LET r == CombinerIterator_next(combiner, source, stack, reductions) IN
       /\ source' = r.source
       /\ stack' = r.stack
       /\ reductions' = r.reductions
       /\ failure' = r.threw
       /\ emitted' = IF r.threw = "" THEN Append(emitted, r.token) ELSE emitted
  /\ UNCHANGED <<combiner>>
  /\ UNCHANGED <<tvars, ivars, svars, mvars, bvars, avars>>

\* a consumer calls next() on the Combiner stream; it gives up once the
\* array is exhausted and a call has failed on that
Combiner_next ==
  /\ source.position <= Len(source._array)
  /\ LET r == CombinerIterator_next(combiner, source, stack, reductions) IN
       /\ source' = r.source
       /\ stack' = r.stack
       /\ reductions' = r.reductions
       /\ failure' = r.threw
       /\ emitted' = IF r.threw = "" THEN Append(emitted, r.token) ELSE emitted
  /\ UNCHANGED <<combiner>>
  /\ UNCHANGED <<tvars, ivars, svars, mvars, bvars, avars>>

---------------------------------------------------------------------------
(* A consumer of one in-memory iterator. memory.class names the class of   *)
(* the iterator memory.it, memory.start is the position it was constructed *)
(* with. call records the latest call: the length asked, the iterator      *)
(* before the call, and what the call returned (chunk for peek and next of *)
(* the chunked iterators, value for peek and next of ArrayIterator, count  *)
(* and moved for skip).                                                    *)

ChunkedClasses == {"BufferIterator", "StringIterator"}

Call(op, length, before, chunk, value, count, moved) ==
  [op |-> op, length |-> length, before |-> before, chunk |-> chunk,
   value |-> value, count |-> count, moved |-> moved]

NoCall == Call("none", 0, <<>>, <<>>, Undefined, 0, FALSE)

\* the backing Buffer or string of a chunked iterator
resource(m) ==
  IF m.class = "BufferIterator" THEN m.it._buffer ELSE m.it._string

Chunked_size(m) ==
  IF m.class = "BufferIterator"
  THEN BufferIterator_size(m.it) ELSE StringIterator_size(m.it)

Chunked_peek(m, length) ==
  IF m.class = "BufferIterator"
  THEN BufferIterator_peek(m.it, length) ELSE StringIterator_peek(m.it, length)

Chunked_next(m, length) ==
  IF m.class = "BufferIterator"
  THEN BufferIterator_next(m.it, length) ELSE StringIterator_next(m.it, length)

Chunked_skip(m, length) ==
  IF m.class = "BufferIterator"
  THEN [it |-> BufferIterator_skip(m.it, length),
        count |-> BufferIterator_skipped(m.it, length)]
  ELSE [it |-> StringIterator_skip(m.it, length),
        count |-> StringIterator_skipped(m.it, length)]

\* iterator.peek(length)
peek ==
  /\ memory.class \in ChunkedClasses
  /\ \E length \in 0..MaxRequest :
       call' = Call("peek", length, memory.it, Chunked_peek(memory, length),
                    Undefined, 0, FALSE)
  /\ UNCHANGED <<memory, run>>
  /\ UNCHANGED <<tvars, cvars, svars, mvars, bvars, avars>>

\* iterator.next(length)
next_chunk ==
  /\ memory.class \in ChunkedClasses
  /\ \E length \in 0..MaxRequest :
       LET r == Chunked_next(memory, length) IN
         /\ memory' = [memory EXCEPT !.it = r.it]
         /\ call' = Call("next", length, memory.it, r.chunk,
                         Undefined, 0, FALSE)
         /\ run' = [run EXCEPT !.chunks = @ \o r.chunk]
  /\ UNCHANGED <<tvars, cvars, svars, mvars, bvars, avars>>

\* iterator.skip(length)
skip ==
  /\ memory.class \in ChunkedClasses
  /\ \E length \in 0..MaxRequest :
       LET r == Chunked_skip(memory, length) IN
         /\ memory' = [memory EXCEPT !.it = r.it]
         /\ call' = Call("skip", length, memory.it, <<>>,
                         Undefined, r.count, FALSE)
         /\ run' = [start |-> r.it.position, chunks |-> <<>>]
  /\ UNCHANGED <<tvars, cvars, svars, mvars, bvars, avars>>

\* the items of the arrays
Items == {Str("x"), Str("y")}

\* array_iterator.peek()
Array_peek ==
  /\ memory.class = "ArrayIterator"
  /\ call' = Call("peek", 0, memory.it, <<>>,
                  ArrayIterator_peek(memory.it), 0, FALSE)
  /\ UNCHANGED <<memory, run>>
  /\ UNCHANGED <<tvars, cvars, svars, mvars, bvars, avars>>

\* array_iterator.next(); the consumer stops MaxBeyond items past the end
Array_next ==
  /\ memory.class = "ArrayIterator"
  /\ memory.it.position < Len(memory.it._array) + MaxBeyond
  /\ LET r == ArrayIterator_next(memory.it) IN
       /\ memory' = [memory EXCEPT !.it = r.it]
       /\ call' = Call("next", 0, memory.it, <<>>, r.value, 0, FALSE)
  /\ UNCHANGED run
  /\ UNCHANGED <<tvars, cvars, svars, mvars, bvars, avars>>

\* array_iterator.skip()
Array_skip ==
  /\ memory.class = "ArrayIterator"
  /\ LET r == ArrayIterator_skip(memory.it) IN
       /\ memory' = [memory EXCEPT !.it = r.it]
       /\ call' = Call("skip", 0, memory.it, <<>>, Undefined, 0, r.moved)
  /\ UNCHANGED run
  /\ UNCHANGED <<tvars, cvars, svars, mvars, bvars, avars>>

\* no in-memory iterator
MemoryUnused ==
  /\ memory = [class |-> "none", it |-> <<>>, start |-> 0]
  /\ call = NoCall
  /\ run = [start |-> 0, chunks |-> <<>>]

---------------------------------------------------------------------------
(* Sources, and the iterators that read a Source in blocks.                *)

Source(class, bytes) == [class |-> class, bytes |-> bytes]

Source_size(src) == Len(src.bytes)

\* the outcome of read(buffer, 0, length, position): whether it threw, the
\* number it returned, and the bytes it copied into buffer
Read(threw, bytesRead, data) ==
  [threw |-> threw, bytesRead |-> bytesRead, data |-> data]

\* fs.readSync(fd, buffer, 0, length, position): a short count at the end
FileSystemSource_read(src, length, position) ==
  LET n == Min(length, Max(0, Len(src.bytes) - position)) IN
    Read(FALSE, n, Buffer_slice(src.bytes, position, position + n))

\* new Uint8Array(arrayBuffer, position, length) throws a RangeError when
\* position + length exceeds byteLength; otherwise length bytes are copied
\* and length is returned
ArrayBufferSource_read(src, length, position) ==
  IF position + length > Len(src.bytes)
  THEN Read(TRUE, 0, <<>>)
  ELSE Read(FALSE, length, Buffer_slice(src.bytes, position, position + length))

Source_read(src, length, position) ==
  IF src.class = "ArrayBufferSource"
  THEN ArrayBufferSource_read(src, length, position)
  ELSE FileSystemSource_read(src, length, position)

\* the characters of the texts: "a" (one byte, 0x61), U+00E9 (two bytes,
\* 0xC3 0xA9) and U+FFFD, which decoding puts in place of a malformed byte
\* (three bytes, 0xEF 0xBF 0xBD)
LatinA == "a"
EAcute == "U+00E9"
Replacement == "U+FFFD"

\* Buffer.prototype.toString('utf8'), to a sequence of characters
RECURSIVE toString(_)
toString(bytes) ==
  IF bytes = <<>> THEN <<>>
  ELSE IF bytes[1] = 97 THEN <<LatinA>> \o toString(Tail(bytes))
  ELSE IF bytes[1] = 195 /\ Len(bytes) >= 2 /\ bytes[2] = 169
       THEN <<EAcute>> \o toString(Tail(Tail(bytes)))
  ELSE <<Replacement>> \o toString(Tail(bytes))

\* Buffer.byteLength(str, 'utf8')
RECURSIVE byteLength(_)
byteLength(str) ==
  IF str = <<>> THEN 0
  ELSE (IF str[1] = LatinA THEN 1 ELSE IF str[1] = EAcute THEN 2 ELSE 3)
       + byteLength(Tail(str))

\* new Buffer(str, 'utf8') for a text of the characters "a" and U+00E9
RECURSIVE Buffer_from(_)
Buffer_from(str) ==
  IF str = <<>> THEN <<>>
  ELSE (IF str[1] = LatinA THEN <<97>> ELSE <<195, 169>>)
       \o Buffer_from(Tail(str))

\* Buffer.prototype.slice(start) for 0 <= start
Buffer_slice_from(buffer, start) ==
  SubSeq(buffer, Min(start, Len(buffer)) + 1, Len(buffer))

\* _reads is not a field of the class: it lists the calls of _source.read
\* made by the request in progress, each with the buffer held before it
BufferedSourceReader(class, position, block_size) ==
  [class |-> class, _position |-> position, _buffer |-> <<>>,
   _block_size |-> block_size, _reads |-> <<>>]

\* a position that reports the fetch cursor
BufferedSourceReader_position_raw(r) == r._position

BufferedSourceReader_position(r) == r._position - Len(r._buffer)

BufferedSourceReader_size(src) == Source_size(src)

\* a read from the position the reader reports, where its buffer begins
_fillBuffer_from_reported(src, r, length) ==
  LET rd == Source_read(src, length, BufferedSourceReader_position(r)) IN
    [reader |-> [r EXCEPT !._position = @ + rd.bytesRead,
                          !._buffer = @ \o rd.data,
                          !._reads = Append(@,
                             [position |-> BufferedSourceReader_position(r),
                              length |-> length,
                              bytesRead |-> rd.bytesRead,
                              buffer |-> r._buffer])],
     EOF |-> rd.bytesRead < length]

\* _fillBuffer(length): the reader after it, and whether the read was short
_fillBuffer(src, r, length) ==
  LET rd == Source_read(src, length, r._position) IN
    [reader |-> [r EXCEPT !._position = @ + rd.bytesRead,
                          !._buffer = @ \o rd.data,
                          !._reads = Append(@,
                             [position |-> r._position,
                              length |-> length,
                              bytesRead |-> rd.bytesRead,
                              buffer |-> r._buffer])],
     EOF |-> rd.bytesRead < length]

\* the predicates handed to _readWhile: by _peekBytes and _skipBytes
\* ("bytes"), and by SourceStringIterator.peek ("characters")
predicate(r, unit, length) ==
  IF unit = "bytes"
  THEN length > Len(r._buffer)
  ELSE length > Len(toString(r._buffer))

RECURSIVE _readWhile(_, _, _, _)
_readWhile(src, r, unit, length) ==
  IF ~predicate(r, unit, length) THEN r
  ELSE LET filled == _fillBuffer(src, r, r._block_size) IN
         IF filled.EOF THEN filled.reader
         ELSE _readWhile(src, filled.reader, unit, length)

_peekBytes(src, r, length) ==
  LET r2 == _readWhile(src, r, "bytes", length) IN
    [reader |-> r2, chunk |-> Buffer_slice(r2._buffer, 0, length)]

_nextBytes(src, r, length) ==
  LET peeked == _peekBytes(src, r, length) IN
    [reader |-> [peeked.reader EXCEPT
                   !._buffer = Buffer_slice_from(@, length)],
     chunk |-> peeked.chunk]

_skipBytes(src, r, length) ==
  LET r2 == _readWhile(src, r, "bytes", length) IN
    [reader |-> [r2 EXCEPT !._buffer = Buffer_slice_from(@, length)],
     count |-> Min(length, Len(r2._buffer))]

SourceStringIterator_peek(src, r, length) ==
  LET r2 == _readWhile(src, r, "characters", length) IN
    [reader |-> r2, chunk |-> slice(toString(r2._buffer), 0, length)]

SourceStringIterator_next(src, r, length) ==
  LET peeked == SourceStringIterator_peek(src, r, length) IN
    [reader |-> [peeked.reader EXCEPT
                   !._buffer = Buffer_slice_from(@, byteLength(peeked.chunk))],
     chunk |-> peeked.chunk]

SourceStringIterator_skip(src, r, length) ==
  LET consumed == SourceStringIterator_next(src, r, length) IN
    [reader |-> consumed.reader, chunk |-> consumed.chunk,
     count |-> Len(consumed.chunk)]

\* a call on file or on reader: the length asked, the position reported
\* before it (for read, the position argument), what it returned, and what
\* the same call on twin returned
SCall(op, length, position, chunk, count, threw, twin_chunk, twin_count) ==
  [op |-> op, length |-> length, position |-> position, chunk |-> chunk,
   count |-> count, threw |-> threw, twin_chunk |-> twin_chunk,
   twin_count |-> twin_count]

NoSCall == SCall("none", 0, 0, <<>>, 0, FALSE, <<>>, 0)

\* the reader as a request finds it: no read made yet
Request(r) == [r EXCEPT !._reads = <<>>]

IsBufferReader == reader.class = "SourceBufferIterator"
IsStringReader == reader.class = "SourceStringIterator"

\* file.read(new Buffer(length), 0, length, position)
read ==
  /\ reader.class = "none"
  /\ file.class # "none"
  /\ \E length \in 0..MaxRequest, position \in 0..(MaxLen + 1) :
       LET rd == Source_read(file, length, position) IN
         scall' = SCall("read", length, position, rd.data, rd.bytesRead,
                        rd.threw, <<>>, 0)
  /\ UNCHANGED <<file, reader, twin, taken>>
  /\ UNCHANGED <<tvars, cvars, ivars, mvars, bvars, avars>>

\* reader.peek(length), and twin.peek(length)
Reader_peek ==
  /\ reader.class # "none"
  /\ \E length \in 0..MaxRequest :
       LET r == IF IsBufferReader
                THEN _peekBytes(file, Request(reader), length)
                ELSE SourceStringIterator_peek(file, Request(reader), length)
       IN /\ reader' = r.reader
          /\ scall' = SCall("peek", length,
                            BufferedSourceReader_position(reader), r.chunk, 0,
                            FALSE, BufferIterator_peek(twin, length), 0)
  /\ UNCHANGED <<file, twin, taken>>
  /\ UNCHANGED <<tvars, cvars, ivars, mvars, bvars, avars>>

\* reader.next(length), and twin.next(length)
Reader_next ==
  /\ reader.class # "none"
  /\ \E length \in 0..MaxRequest :
       LET r == IF IsBufferReader
                THEN _nextBytes(file, Request(reader), length)
                ELSE SourceStringIterator_next(file, Request(reader), length)
           t == BufferIterator_next(twin, length)
       IN /\ reader' = r.reader
          /\ twin' = IF IsBufferReader THEN t.it ELSE twin
          /\ scall' = SCall("next", length,
                            BufferedSourceReader_position(reader), r.chunk, 0,
                            FALSE, t.chunk, 0)
          /\ taken' = IF IsStringReader THEN taken \o r.chunk ELSE taken
  /\ UNCHANGED file
  /\ UNCHANGED <<tvars, cvars, ivars, mvars, bvars, avars>>

\* reader.skip(length), and twin.skip(length)
Reader_skip ==
  /\ reader.class # "none"
  /\ \E length \in 0..MaxRequest :
       LET r == IF IsBufferReader
                THEN _skipBytes(file, Request(reader), length)
                ELSE SourceStringIterator_skip(file, Request(reader), length)
       IN /\ reader' = r.reader
          /\ twin' = IF IsBufferReader
                     THEN BufferIterator_skip(twin, length) ELSE twin
          /\ scall' = SCall("skip", length,
                            BufferedSourceReader_position(reader), <<>>,
                            r.count, FALSE, <<>>,
                            BufferIterator_skipped(twin, length))
          /\ taken' = IF IsStringReader THEN taken \o r.chunk ELSE taken
  /\ UNCHANGED file
  /\ UNCHANGED <<tvars, cvars, ivars, mvars, bvars, avars>>

\* no Source and no Source-backed iterator
SourceUnused ==
  /\ file = Source("none", <<>>)
  /\ reader = BufferedSourceReader("none", 0, DefaultBlockSize)
  /\ twin = BufferIterator(<<>>, 0)
  /\ scall = NoSCall
  /\ taken = <<>>

---------------------------------------------------------------------------
(* MachineState: a state object with an accumulator `value`, an ordered    *)
(* table of rules [RegExp, callback] and the loop read().                  *)
(* The callbacks of the rules:                                             *)
(*   "pop":    this.pop, returns this.value                                *)
(*   "ignore": this.ignore, returns undefined                              *)
(*   "append": match => { this.value.push(match[0]); return undefined }    *)
(*   "null":   match => null                                               *)
(*   "text":   match => match[0]                                           *)

MachineRule(regexp, callback) == <<regexp, callback>>

MachineState(rules, value, iterable_, peek_length) ==
  [rules |-> rules, value |-> value, iterable |-> iterable_,
   peek_length |-> peek_length]

MachineState_pop(value) == value

MachineState_ignore == Undefined

\* rule[1].call(this, match): the accumulator after it, and the result
MachineCallback_call(callback, m, value) ==
  CASE callback = "pop" -> [value |-> value, result |-> MachineState_pop(value)]
    [] callback = "ignore" -> [value |-> value, result |-> MachineState_ignore]
    [] callback = "append" ->
         [value |-> Arr(Append(value.v, Text(m[1]))), result |-> Undefined]
    [] callback = "null" -> [value |-> value, result |-> Null]
    [] callback = "text" -> [value |-> value, result |-> Str(Text(m[1]))]

\* the for loop of read(): the index of the rule it stops at, 0 when it
\* runs off the end of the table
RECURSIVE MachineState_scan(_, _, _)
MachineState_scan(rules, input, i) ==
  IF i > Len(rules) THEN 0
  ELSE IF match(input, rules[i][1]) # <<>> THEN i
  ELSE MachineState_scan(rules, input, i + 1)

\* a test of the result that also takes null for "keep parsing"
MachineState_returns_truthy(result) == result \notin {Undefined, Null}

\* result !== undefined
MachineState_returns(result) == result # Undefined

\* an end-of-input test that never fires
MachineState_EOF_never(input) == FALSE

\* input.length === 0
MachineState_EOF(input) == Len(input) = 0

\* iteration, entered and stalled are kept by the actions of read():
\* the number of iterations made, the position at which read() was entered
\* and whether an iteration kept parsing without consuming although its
\* window was not empty
NoIteration ==
  [step |-> "none", input |-> <<>>, before |-> 0, i |-> 0,
   callback |-> "", value |-> Undefined, result |-> Undefined,
   outcome |-> "none", iteration |-> 0, entered |-> 0, stalled |-> FALSE]

\* One iteration of the while loop of read().  step is "match" (a rule
\* matched), "nomatch" (the table was scanned and its last rule left match
\* null) or "unscanned" (the table is empty: match keeps the value
\* undefined it has had since the function was entered, and the test
\* match === null is false).  outcome is "return", "loop", "throw EOF" or
\* "throw Invalid language".
MachineState_read_iteration(m) ==
  LET input == StringIterator_peek(m.iterable, m.peek_length)
      seen == [NoIteration EXCEPT !.input = input,
                                  !.before = m.iterable.position,
                                  !.value = m.value]
      i == MachineState_scan(m.rules, input, 1)
  IN
  IF m.rules = <<>>
  THEN [machine |-> m,
        log |-> [seen EXCEPT !.step = "unscanned", !.outcome = "loop"]]
  ELSE IF i = 0
  THEN [machine |-> m,
        log |-> [seen EXCEPT !.step = "nomatch",
                             !.outcome = "throw Invalid language"]]
  ELSE
    LET matched == match(input, m.rules[i][1])
        skipped == StringIterator_skip(m.iterable, Len(matched[1]))
        called == MachineCallback_call(m.rules[i][2], matched, m.value)
    IN [machine |-> [m EXCEPT !.iterable = skipped, !.value = called.value],
        log |-> [seen EXCEPT
                   !.step = "match", !.i = i, !.callback = m.rules[i][2],
                   !.result = called.result,
                   !.outcome =
                      IF MachineState_returns(called.result) THEN "return"
                      ELSE IF MachineState_EOF(input) THEN "throw EOF"
                      ELSE "loop"]]

\* read() is entered
MachineState_read ==
  /\ mpc = "idle"
  /\ mpc' = "running"
  /\ mlog' = [mlog EXCEPT !.entered = machine.iterable.position]
  /\ UNCHANGED <<machine, mout>>
  /\ UNCHANGED <<tvars, cvars, ivars, svars, bvars, avars>>

\* one iteration of the loop of read()
MachineState_read_loop ==
  /\ mpc = "running"
  /\ mlog.iteration < MaxIterations
  /\ LET r == MachineState_read_iteration(machine) IN
       /\ machine' = r.machine
       /\ mlog' = [r.log EXCEPT
                     !.iteration = mlog.iteration + 1,
                     !.entered = mlog.entered,
                     !.stalled =
                        \/ mlog.stalled
                        \/ /\ r.log.step = "match"
                           /\ r.log.result = Undefined
                           /\ r.log.input # <<>>
                           /\ match(r.log.input,
                                    machine.rules[r.log.i][1])[1] = <<>>]
       /\ mpc' = CASE r.log.outcome = "return" -> "returned"
                   [] r.log.outcome = "loop" -> "running"
                   [] OTHER -> "threw"
       /\ mout' = IF r.log.outcome = "return"
                  THEN Append(mout, r.log.result) ELSE mout
  /\ UNCHANGED <<tvars, cvars, ivars, svars, bvars, avars>>

\* the rule tables of the states
WordStateRules ==
  << MachineRule(RE_WORDCHAR, "append"), MachineRule(RE_WORD, "text"),
     MachineRule(RE_SPACES, "ignore"), MachineRule(RE_BANG, "pop"),
     MachineRule(RE_EOF, "ignore") >>

PopStateRules ==
  << MachineRule(RE_WORD, "text"), MachineRule(RE_SPACES, "null"),
     MachineRule(RE_PAREN, "pop"), MachineRule(RE_EOF, "pop") >>

\* a table whose first rule matches the empty string before any word
StallStateRules ==
  << MachineRule(RE_OPTIONAL_SPACES, "ignore"), MachineRule(RE_WORD, "text") >>

\* the states: a rule table and the accumulator its constructor sets (the
\* field is undefined when no constructor sets it)
MachineStates ==
  {[rules |-> WordStateRules, value |-> Arr(<<>>)],
   [rules |-> StallStateRules, value |-> Null],
   [rules |-> <<>>, value |-> Null]}
  \cup {[rules |-> PopStateRules, value |-> v] :
          v \in {Undefined, Null, Str("v")}}

\* no MachineState
MachineUnused ==
  /\ machine = MachineState(<<>>, Undefined, StringIterator(<<>>, 0),
                            DefaultPeekLength)
  /\ mpc = "none"
  /\ mlog = NoIteration
  /\ mout = <<>>

---------------------------------------------------------------------------
(* attachState(): a state creates a sub-state over its own iterator.  The   *)
(* iterable field of a state is a reference to an object of heap, so that  *)
(* what one state skips is skipped for every state holding the reference.  *)

\* a sub-state that is handed a copy of the parent's iterator
attachState_clone(m, SubState, objects) ==
  [state |-> MachineState(SubState.rules, SubState.value, Len(objects) + 1,
                          m.peek_length),
   heap |-> Append(objects, objects[m.iterable])]

\* new SubState(this.iterable, this.peek_length): the new state, and the
\* heap after the call
attachState(m, SubState, objects) ==
  [state |-> MachineState(SubState.rules, SubState.value, m.iterable,
                          m.peek_length),
   heap |-> objects]

\* the state m with the object its iterable refers to
Dereferenced(m) == [m EXCEPT !.iterable = heap[m.iterable]]

NoAttachStep ==
  [event |-> "none", before |-> 0, input |-> <<>>, outcome |-> "none",
   stopped |-> <<>>, resumed |-> FALSE]

\* one iteration of the loop of read() of the parent
Parent_read_loop ==
  /\ apc = "parent"
  /\ LET r == MachineState_read_iteration(Dereferenced(parent)) IN
       /\ heap' = [heap EXCEPT ![parent.iterable] = r.machine.iterable]
       /\ parent' = [parent EXCEPT !.value = r.machine.value]
       /\ alog' = [event |-> "parent", before |-> r.log.before,
                   input |-> r.log.input, outcome |-> r.log.outcome,
                   stopped |-> alog.stopped,
                   resumed |-> alog.event = "sub"]
       /\ apc' = CASE r.log.outcome = "return" -> "returned"
                   [] r.log.outcome = "loop" -> "parent"
                   [] OTHER -> "threw"
  /\ UNCHANGED child
  /\ UNCHANGED <<tvars, cvars, ivars, svars, mvars, bvars>>

\* this.attachState(SubState), called by the parent between two peeks
attachState_call ==
  /\ apc = "parent"
  /\ \E SubState \in MachineStates :
       LET made == attachState(parent, SubState, heap) IN
         /\ child' = <<made.state>>
         /\ heap' = made.heap
  /\ alog' = [NoAttachStep EXCEPT !.event = "attachState",
                                  !.before = heap[parent.iterable].position,
                                  !.stopped = alog.stopped]
  /\ apc' = "attached"
  /\ UNCHANGED parent
  /\ UNCHANGED <<tvars, cvars, ivars, svars, mvars, bvars>>

\* read() of the sub-state is entered
SubState_read ==
  /\ apc = "attached"
  /\ apc' = "sub"
  /\ UNCHANGED <<heap, parent, child, alog>>
  /\ UNCHANGED <<tvars, cvars, ivars, svars, mvars, bvars>>

\* one iteration of the loop of read() of the sub-state; when it returns,
\* the parent goes on
SubState_read_loop ==
  /\ apc = "sub"
  /\ LET sub == child[1]
         r == MachineState_read_iteration(Dereferenced(sub))
     IN
       /\ heap' = [heap EXCEPT ![sub.iterable] = r.machine.iterable]
       /\ child' = <<[sub EXCEPT !.value = r.machine.value]>>
       /\ alog' = [event |-> "sub", before |-> r.log.before,
                   input |-> r.log.input, outcome |-> r.log.outcome,
                   stopped |-> IF r.log.outcome = "return"
                               THEN <<r.machine.iterable.position>>
                               ELSE alog.stopped,
                   resumed |-> FALSE]
       /\ apc' = CASE r.log.outcome = "return" -> "parent"
                   [] r.log.outcome = "loop" -> "sub"
                   [] OTHER -> "threw"
  /\ UNCHANGED parent
  /\ UNCHANGED <<tvars, cvars, ivars, svars, mvars, bvars>>

\* no state with a sub-state
AttachUnused ==
  /\ heap = <<>>
  /\ parent = MachineState(<<>>, Undefined, 0, DefaultPeekLength)
  /\ child = <<>>
  /\ apc = "none"
  /\ alog = NoAttachStep

---------------------------------------------------------------------------
(* The functions of src/buffer.ts on Buffers, which are sequences of       *)
(* bytes.  bcall is one call: the function, its two buffers, the numbers   *)
(* passed after them (trailing ones may be left out and take their         *)
(* defaults), and once the call is done its result: <<boolean>> for        *)
(* compare and equalTo, <<index>> or <<>> (undefined) for indexOf.         *)

\* a compare that always looks at the start of haystack
compare_at_start(haystack, needle, fromIndex) ==
  IF Len(needle) > Len(haystack) THEN FALSE
  ELSE \A i \in 0..(Len(needle) - 1) : needle[i + 1] = haystack[i + 1]

compare(haystack, needle, fromIndex) ==
  IF fromIndex + Len(needle) > Len(haystack) THEN FALSE
  ELSE \A i \in 0..(Len(needle) - 1) :
         needle[i + 1] = haystack[fromIndex + i + 1]

\* the loop of indexOf from i = fromIndex: <<i>>, or <<>> for undefined
RECURSIVE indexOf(_, _, _)
indexOf(haystack, needle, fromIndex) ==
  IF fromIndex >= Len(haystack) THEN <<>>
  ELSE IF compare(haystack, needle, fromIndex) THEN <<fromIndex>>
       ELSE indexOf(haystack, needle, fromIndex + 1)

equalTo(left, right, left_offset, left_end, right_offset, right_end) ==
  LET left_length == left_end - left_offset IN
  IF left_length # right_end - right_offset THEN FALSE
  ELSE \A i \in 0..(left_length - 1) :
         left[left_offset + i + 1] = right[right_offset + i + 1]

\* the k-th number passed, or the parameter's default
Argument(numbers, k, default) ==
  IF k <= Len(numbers) THEN numbers[k] ELSE default

BCall(fn, buffers, numbers) ==
  [fn |-> fn, buffers |-> buffers, numbers |-> numbers, done |-> FALSE,
   result |-> <<>>]

NoBCall == BCall("none", <<>>, <<>>)

\* compare(haystack, needle, fromIndex = 0)
compare_call ==
  /\ bcall.fn = "compare"
  /\ ~bcall.done
  /\ LET fromIndex == Argument(bcall.numbers, 1, 0) IN
       bcall' = [bcall EXCEPT
                   !.done = TRUE,
                   !.result = <<compare(bcall.buffers[1], bcall.buffers[2],
                                        fromIndex)>>]
  /\ UNCHANGED <<tvars, cvars, ivars, svars, mvars, avars>>

\* indexOf(haystack, needle, fromIndex = 0)
indexOf_call ==
  /\ bcall.fn = "indexOf"
  /\ ~bcall.done
  /\ LET fromIndex == Argument(bcall.numbers, 1, 0) IN
       bcall' = [bcall EXCEPT
                   !.done = TRUE,
                   !.result = indexOf(bcall.buffers[1], bcall.buffers[2],
                                      fromIndex)]
  /\ UNCHANGED <<tvars, cvars, ivars, svars, mvars, avars>>

\* equalTo(left, right, left_offset = 0,
\*         left_end = left.length - left_offset, right_offset = 0,
\*         right_end = right.length - right_offset)
equalTo_call ==
  /\ bcall.fn = "equalTo"
  /\ ~bcall.done
  /\ LET left == bcall.buffers[1]
         right == bcall.buffers[2]
         left_offset == Argument(bcall.numbers, 1, 0)
         left_end == Argument(bcall.numbers, 2, Len(left) - left_offset)
         right_offset == Argument(bcall.numbers, 3, 0)
         right_end == Argument(bcall.numbers, 4, Len(right) - right_offset)
     IN bcall' = [bcall EXCEPT
                    !.done = TRUE,
                    !.result = <<equalTo(left, right, left_offset, left_end,
                                         right_offset, right_end)>>]
  /\ UNCHANGED <<tvars, cvars, ivars, svars, mvars, avars>>

\* no call of a function of src/buffer.ts
BufferUtilUnused == bcall = NoBCall

\* no Combiner stream
CombinerUnused ==
  /\ combiner = Combiner(<<>>)
  /\ source = ArrayIterator(<<>>, 0)
  /\ stack = <<>>
  /\ emitted = <<>>
  /\ reductions = <<>>
  /\ failure = ""

\* no Tokenizer stream
TokenizerUnused ==
  /\ tokenizer = Tokenizer(<<>>, NoStateRules, DefaultPeekLength)
  /\ arrays = <<>>
  /\ passed = <<>>
  /\ iterable = <<>>
  /\ states = <<>>
  /\ pc = <<>>
  /\ calls = <<>>
  /\ out = <<>>
  /\ last = <<>>

\* Combiner.map(iterable, stack = []) over an array of tokens that ends
\* with an EOF token
InitCombiner ==
  /\ combiner \in Combiners
  /\ \E tokens \in SeqsUpTo(InputTokens, MaxTokens) :
       source = ArrayIterator(Append(tokens, EOFToken), 0)
  /\ stack = <<>>
  /\ emitted = <<>>
  /\ reductions = <<>>
  /\ failure = ""
  /\ TokenizerUnused
  /\ MemoryUnused
  /\ SourceUnused
  /\ MachineUnused
  /\ BufferUtilUnused
  /\ AttachUnused

\* the same over shorter arrays, for the Combiners of CombinersWithEOF
InitCombinerShort ==
  /\ combiner \in CombinersWithEOF
  /\ \E tokens \in SeqsUpTo(InputTokens, MaxLenTwo) :
       source = ArrayIterator(Append(tokens, EOFToken), 0)
  /\ stack = <<>>
  /\ emitted = <<>>
  /\ reductions = <<>>
  /\ failure = ""
  /\ TokenizerUnused
  /\ MemoryUnused
  /\ SourceUnused
  /\ MachineUnused
  /\ BufferUtilUnused
  /\ AttachUnused

\* one stream over one input, made by map(iterable, initial_states)
InitOne ==
  /\ tokenizer \in Tokenizers
  /\ \E string \in SeqsUpTo(Chars, MaxLen), initial \in InitialStates :
       LET stream == Tokenizer_map(StringIterator(string, 0), 1) IN
         /\ arrays = [a \in {1} |-> initial]
         /\ passed = [a \in {1} |-> initial]
         /\ iterable = [s \in {1} |-> stream.iterable]
         /\ states = [s \in {1} |-> stream.states]
  /\ pc = [s \in {1} |-> "idle"]
  /\ calls = [s \in {1} |-> 0]
  /\ out = [s \in {1} |-> <<>>]
  /\ last = [s \in {1} |-> NoStep]
  /\ CombinerUnused
  /\ MemoryUnused
  /\ SourceUnused
  /\ MachineUnused
  /\ BufferUtilUnused
  /\ AttachUnused

\* two streams over equal inputs; the caller hands the second map() either
\* the array it handed the first one, or another array with equal contents
InitTwo ==
  /\ tokenizer \in Tokenizers
  /\ \E string \in SeqsUpTo(Chars, MaxLenTwo), initial \in InitialStates,
        second \in {1, 2} :
       LET stream1 == Tokenizer_map(StringIterator(string, 0), 1)
           stream2 == Tokenizer_map(StringIterator(string, 0), second)
       IN
         /\ arrays = [a \in 1..second |-> initial]
         /\ passed = [a \in 1..second |-> initial]
         /\ iterable = [s \in {1, 2} |->
                          IF s = 1 THEN stream1.iterable ELSE stream2.iterable]
         /\ states = [s \in {1, 2} |->
                        IF s = 1 THEN stream1.states ELSE stream2.states]
  /\ pc = [s \in {1, 2} |-> "idle"]
  /\ calls = [s \in {1, 2} |-> 0]
  /\ out = [s \in {1, 2} |-> <<>>]
  /\ last = [s \in {1, 2} |-> NoStep]
  /\ CombinerUnused
  /\ MemoryUnused
  /\ SourceUnused
  /\ MachineUnused
  /\ BufferUtilUnused
  /\ AttachUnused

TokenizerIterator_next == \E s \in Streams : next(s)
TokenizerIterator_next_loop == \E s \in Streams : next_loop(s)

TokNext == TokenizerIterator_next \/ TokenizerIterator_next_loop

vars == <<tvars, cvars, ivars, svars, mvars, bvars, avars>>

\* new BufferIterator(buffer, position) or new StringIterator(string,
\* position), the position within the resource
InitMemory ==
  /\ \/ \E buffer \in SeqsUpTo(Bytes, MaxLen) : \E position \in 0..Len(buffer) :
          memory = [class |-> "BufferIterator",
                    it |-> BufferIterator(buffer, position),
                    start |-> position]
     \/ \E string \in SeqsUpTo(WordChars, MaxLen) :
          \E position \in 0..Len(string) :
            memory = [class |-> "StringIterator",
                      it |-> StringIterator(string, position),
                      start |-> position]
  /\ call = NoCall
  /\ run = [start |-> memory.start, chunks |-> <<>>]
  /\ TokenizerUnused
  /\ CombinerUnused
  /\ SourceUnused
  /\ MachineUnused
  /\ BufferUtilUnused
  /\ AttachUnused

\* new ArrayIterator(array, position)
InitArray ==
  /\ \E array \in SeqsUpTo(Items, MaxLen) : \E position \in 0..Len(array) :
       memory = [class |-> "ArrayIterator",
                 it |-> ArrayIterator(array, position),
                 start |-> position]
  /\ call = NoCall
  /\ run = [start |-> memory.start, chunks |-> <<>>]
  /\ TokenizerUnused
  /\ CombinerUnused
  /\ SourceUnused
  /\ MachineUnused
  /\ BufferUtilUnused
  /\ AttachUnused

MemoryNext == peek \/ next_chunk \/ skip
ArrayNext == Array_peek \/ Array_next \/ Array_skip

\* a Source over some bytes, read directly
InitSource ==
  /\ \E class \in {"FileSystemSource", "ArrayBufferSource"},
        bytes \in SeqsUpTo(Bytes, MaxLen) :
       file = Source(class, bytes)
  /\ reader = BufferedSourceReader("none", 0, DefaultBlockSize)
  /\ twin = BufferIterator(<<>>, 0)
  /\ scall = NoSCall
  /\ taken = <<>>
  /\ TokenizerUnused
  /\ CombinerUnused
  /\ MemoryUnused
  /\ MachineUnused
  /\ BufferUtilUnused
  /\ AttachUnused

BlockSizes == 1..MaxBlock \cup {DefaultBlockSize}

\* the texts a SourceStringIterator decodes
Texts == SeqsUpTo({LatinA, EAcute}, MaxLen)

\* new SourceBufferIterator(source, position, block_size) beside a
\* BufferIterator over the same bytes at the same position, or
\* new SourceStringIterator(source, 'utf8', 0, block_size) over the UTF-8
\* encoding of a text; the source honours the short-read contract
InitReader ==
  /\ \/ \E bytes \in SeqsUpTo(Bytes, MaxLen), block_size \in BlockSizes :
          \E position \in 0..Len(bytes) :
            /\ file = Source("FileSystemSource", bytes)
            /\ reader = BufferedSourceReader("SourceBufferIterator", position,
                                             block_size)
            /\ twin = BufferIterator(bytes, position)
     \/ \E str \in Texts, block_size \in BlockSizes :
          /\ file = Source("FileSystemSource", Buffer_from(str))
          /\ reader = BufferedSourceReader("SourceStringIterator", 0,
                                           block_size)
          /\ twin = BufferIterator(<<>>, 0)
  /\ scall = NoSCall
  /\ taken = <<>>
  /\ TokenizerUnused
  /\ CombinerUnused
  /\ MemoryUnused
  /\ MachineUnused
  /\ BufferUtilUnused
  /\ AttachUnused

ReaderNext == Reader_peek \/ Reader_next \/ Reader_skip

\* new State(iterable, peek_length) for a subclass State of MachineState
InitMachine ==
  /\ \E st \in MachineStates, string \in SeqsUpTo(Chars, MaxLen),
        peek_length \in {SmallPeek, DefaultPeekLength} :
       \E position \in 0..Len(string) :
         machine = MachineState(st.rules, st.value,
                                StringIterator(string, position), peek_length)
  /\ mpc = "idle"
  /\ mlog = NoIteration
  /\ mout = <<>>
  /\ TokenizerUnused
  /\ CombinerUnused
  /\ MemoryUnused
  /\ SourceUnused
  /\ BufferUtilUnused
  /\ AttachUnused

MachineNext == MachineState_read \/ MachineState_read_loop

\* new State(iterable, peek_length) for a state that will attach sub-states
InitAttach ==
  /\ \E st \in MachineStates, string \in SeqsUpTo(Chars, MaxLen),
        peek_length \in {SmallPeek, DefaultPeekLength} :
       \E position \in 0..Len(string) :
         /\ heap = <<StringIterator(string, position)>>
         /\ parent = MachineState(st.rules, st.value, 1, peek_length)
  /\ child = <<>>
  /\ apc = "parent"
  /\ alog = NoAttachStep
  /\ TokenizerUnused
  /\ CombinerUnused
  /\ MemoryUnused
  /\ SourceUnused
  /\ MachineUnused
  /\ BufferUtilUnused

AttachNext ==
  \/ Parent_read_loop
  \/ attachState_call
  \/ SubState_read
  \/ SubState_read_loop

\* the numbers passed to equalTo: any leading part of the four bounds, each
\* bound inside its buffer
equalTo_numbers(left, right) ==
  { SubSeq(<<lo, le, ro, re>>, 1, n) :
      lo \in 0..Len(left), le \in 0..Len(left),
      ro \in 0..Len(right), re \in 0..Len(right), n \in 0..4 }

\* one call of compare, indexOf or equalTo on buffers of a few bytes
InitBuffer ==
  /\ \/ \E haystack \in SeqsUpTo(Bytes, MaxLen) :
          \E needle \in SeqsUpTo(Bytes, MaxLenTwo) :
            \E numbers \in {<<>>} \cup {<<n>> : n \in 0..(MaxLen + 1)} :
              \E fn \in {"compare", "indexOf"} :
                bcall = BCall(fn, <<haystack, needle>>, numbers)
     \/ \E left \in SeqsUpTo(Bytes, MaxLenTwo) :
          \E right \in SeqsUpTo(Bytes, MaxLenTwo) :
            \E numbers \in equalTo_numbers(left, right) :
              bcall = BCall("equalTo", <<left, right>>, numbers)
  /\ TokenizerUnused
  /\ CombinerUnused
  /\ MemoryUnused
  /\ SourceUnused
  /\ MachineUnused
  /\ AttachUnused

BufferNext == compare_call \/ indexOf_call \/ equalTo_call

Spec == InitOne /\ [][TokNext]_vars
SpecTwo == InitTwo /\ [][TokNext]_vars
SpecCombiner == InitCombiner /\ [][Combiner_next]_vars

\* the consumer of tests/simple.ts keeps calling next(): a call that can be
\* made is made
SpecCombinerLive ==
  InitCombinerShort /\ [][Combiner_next]_vars /\ WF_vars(Combiner_next)
SpecMemory == InitMemory /\ [][MemoryNext]_vars
SpecArray == InitArray /\ [][ArrayNext]_vars
SpecSource == InitSource /\ [][read]_vars
SpecReader == InitReader /\ [][ReaderNext]_vars
SpecMachine == InitMachine /\ [][MachineNext]_vars
SpecAttach == InitAttach /\ [][AttachNext]_vars
SpecBuffer == InitBuffer /\ [][BufferNext]_vars

---------------------------------------------------------------------------
(* Properties of the Tokenizer.                                            *)

\* the window _next peeked in the step logged in `log`
Window(s, log) ==
  slice(iterable[s]._string, log.before, log.before + tokenizer.peek_length)

IsNullNamed(token) == token.t = "object" /\ token.v.name = Null

\* C1: in every matching step the window is the peek of peek_length units,
\* the rule whose action ran is the lowest-indexed rule of the consulted
\* rule set whose pattern matches that window, and the step made exactly
\* the one call of that rule's action: its token and its state stack.
C1_FirstMatchingRuleWins ==
  \A s \in Streams :
    last[s].step = "match" =>
      LET log == last[s]
          rules == log.rules[1]
          m == match(log.input, rules[log.i][1])
      IN /\ log.input = Window(s, log)
         /\ log.i \in 1..Len(rules)
         /\ m # <<>>
         /\ \A j \in 1..(log.i - 1) : match(log.input, rules[j][1]) = <<>>
         /\ log.token = RegexAction_call(rules[log.i][2], m, log.stack).token
         /\ arrays[states[s]] =
              RegexAction_call(rules[log.i][2], m, log.stack).stack

\* a step where rule 1 won although rule 2 matches too, and a longer text
C1_Witness ==
  \E s \in Streams :
    /\ last[s].step = "match"
    /\ last[s].i = 1
    /\ Len(last[s].rules[1]) > 1
    /\ match(last[s].input, last[s].rules[1][2][1]) # <<>>
    /\ Len(match(last[s].input, last[s].rules[1][2][1])[1])
         > Len(match(last[s].input, last[s].rules[1][1][1])[1])

\* C2: the public next() never returns null or a token whose name is null;
\* when a step yields null or a null-named token the call has not returned:
\* it is still in its loop, with the cursor past the matched text.
C2_NullTokensNeverReturned ==
  \A s \in Streams :
    /\ Len(out[s]) <= calls[s]
    /\ \A k \in 1..Len(out[s]) :
         /\ out[s][k] # Null
         /\ out[s][k].t = "object"
         /\ out[s][k].v.name # Null
    /\ (last[s].step = "match"
        /\ (last[s].token = Null \/ IsNullNamed(last[s].token)))
       => /\ pc[s] = "running"
          /\ Len(out[s]) < calls[s]
          /\ iterable[s].position =
               last[s].before
               + Len(match(last[s].input,
                           last[s].rules[1][last[s].i][1])[1])

\* a null-named token was discarded after a token had been returned
C2_Witness ==
  \E s \in Streams :
    /\ pc[s] = "running"
    /\ last[s].step = "match"
    /\ IsNullNamed(last[s].token)
    /\ out[s] # <<>>
    /\ iterable[s].position > last[s].before

\* the maximal runs of word characters of a string
IsWordRun(string, i, j) ==
  /\ i <= j
  /\ \A k \in i..j : string[k] \in WordChars
  /\ i = 1 \/ string[i - 1] \notin WordChars
  /\ j = Len(string) \/ string[j + 1] \notin WordChars

WordRuns(string) ==
  { r \in (1..Len(string)) \X (1..Len(string)) : IsWordRun(string, r[1], r[2]) }

\* the k-th run in input order
NthRun(string, k) ==
  CHOOSE r \in WordRuns(string) :
    Cardinality({q \in WordRuns(string) : q[1] < r[1]}) = k - 1

\* what reading to EOF must give: one WORD per run, then EOF
WordsThenEOF(string) ==
  [k \in 1..(Cardinality(WordRuns(string)) + 1) |->
     IF k <= Cardinality(WordRuns(string))
     THEN Token(Str("WORD"),
                Str(Text(SubSeq(string, NthRun(string, k)[1],
                                NthRun(string, k)[2]))))
     ELSE Token(Str("EOF"), Null)]

\* stream s runs the rules of tests/simple.ts from an empty state stack over
\* word characters and whitespace, and its consumer has just read to EOF
ReadSimpleToEOF(s) ==
  /\ tokenizer.default_rules = SimpleRules
  /\ passed[states[s]] = <<>>
  /\ \A k \in 1..Len(iterable[s]._string) :
       iterable[s]._string[k] \in WordChars \cup SpaceChars
  /\ pc[s] = "idle"
  /\ out[s] # <<>>
  /\ out[s][Len(out[s])].v.name = Str("EOF")
  /\ \A k \in 1..(Len(out[s]) - 1) : out[s][k].v.name # Str("EOF")

\* C3 as claimed: for any such string, reading to EOF gives one WORD per
\* maximal run of word characters and one EOF, and ends at position = size.
C3_OneWordPerRun ==
  \A s \in Streams :
    ReadSimpleToEOF(s) =>
      /\ out[s] = WordsThenEOF(iterable[s]._string)
      /\ iterable[s].position = StringIterator_size(iterable[s])

\* C3 (amended): the same, for strings none of whose runs of word characters
\* is longer than the peek window.
C3_OneWordPerRunWithinWindow ==
  \A s \in Streams :
    (/\ ReadSimpleToEOF(s)
     /\ \A r \in WordRuns(iterable[s]._string) :
          r[2] - r[1] + 1 <= tokenizer.peek_length)
    => /\ out[s] = WordsThenEOF(iterable[s]._string)
       /\ iterable[s].position = StringIterator_size(iterable[s])

\* a run as long as the window, and what follows it, were read to EOF
C3_Witness ==
  \E s \in Streams :
    /\ ReadSimpleToEOF(s)
    /\ \E r \in WordRuns(iterable[s]._string) :
         r[2] - r[1] + 1 = tokenizer.peek_length
    /\ Len(iterable[s]._string) > tokenizer.peek_length
    /\ Len(out[s]) >= 2

\* no rule of the active rule set matches the window of stream s
NoRuleMatches(s) ==
  LET rules == getRules(tokenizer, top(arrays[states[s]]))
      input == StringIterator_peek(iterable[s], tokenizer.peek_length)
  IN /\ rules # <<>>
     /\ \A j \in 1..Len(rules[1]) : match(input, rules[1][j][1]) = <<>>

\* C4: a step taken when no rule of the active rule set matches the window
\* ends the call with the no-match error: no token is returned, no action
\* runs, and position and state stack stay as they were.
C4_NoMatchThrows ==
  [][\A s \in Streams :
       (pc[s] = "running" /\ NoRuleMatches(s)) =>
         /\ pc'[s] = "idle"
         /\ last'[s].step = "nomatch"
         /\ last'[s].outcome = "throw"
         /\ last'[s].i = 0
         /\ out' = out
         /\ iterable' = iterable
         /\ arrays' = arrays]_vars

\* the error was raised in the middle of the input, after a returned token
C4_Witness ==
  \E s \in Streams :
    /\ pc[s] = "idle"
    /\ last[s].step = "nomatch"
    /\ last[s].outcome = "throw"
    /\ out[s] # <<>>
    /\ iterable[s].position > 0
    /\ iterable[s].position < StringIterator_size(iterable[s])

\* C5: every step consults the default rules when the state stack is empty
\* and otherwise exactly the rules registered for the state on top of the
\* state stack: the rule that fires is the first of that set to match, and the
\* no-match error means that nothing in that set matches.
C5_ActiveRuleSet ==
  [][\A s \in Streams :
       LET state_stack == arrays[states[s]]
           active == IF state_stack = <<>> THEN tokenizer.default_rules
                     ELSE tokenizer.state_rules[state_stack[Len(state_stack)]]
           input == StringIterator_peek(iterable[s], tokenizer.peek_length)
       IN (/\ pc[s] = "running"
           /\ state_stack # <<>> =>
                state_stack[Len(state_stack)] \in DOMAIN tokenizer.state_rules)
          => /\ last'[s].rules = << active >>
             /\ last'[s].step \in {"match", "nomatch"}
             /\ last'[s].step = "nomatch" =>
                  \A j \in 1..Len(active) : match(input, active[j][1]) = <<>>
             /\ last'[s].step = "match" =>
                  /\ last'[s].i \in 1..Len(active)
                  /\ match(input, active[last'[s].i][1]) # <<>>
                  /\ last'[s].token =
                       RegexAction_call(active[last'[s].i][2],
                                        match(input, active[last'[s].i][1]),
                                        state_stack).token]_vars

\* inside one call of next(), the step after a discarded token ran under
\* the state that token's action had pushed, where the default rules would
\* have given another token
C5_Witness ==
  \E s \in Streams :
    /\ calls[s] = 1
    /\ passed[states[s]] = <<>>
    /\ last[s].step = "match"
    /\ last[s].stack = <<"paren">>
    /\ last[s].token = Token(Str("INNER"), Str("a"))
    /\ FirstMatchingRule(tokenizer.default_rules, last[s].input, 1) # 0

\* C6: a step taken while the state on top of the state stack has no rule set
\* fails: the call ends without a token, no action runs (the state stack is
\* unchanged) and no input is consumed.
C6_UnknownStateFails ==
  [][\A s \in Streams :
       LET state_stack == arrays[states[s]] IN
       (/\ pc[s] = "running"
        /\ state_stack # <<>>
        /\ state_stack[Len(state_stack)] \notin DOMAIN tokenizer.state_rules)
       => /\ pc'[s] = "idle"
          /\ last'[s].outcome = "throw"
          /\ last'[s].i = 0
          /\ out' = out
          /\ iterable' = iterable
          /\ arrays' = arrays]_vars

\* the call failed on a state that a rule action had pushed
C6_Witness ==
  \E s \in Streams :
    /\ pc[s] = "idle"
    /\ last[s].step = "norules"
    /\ last[s].outcome = "throw"
    /\ last[s].stack # passed[states[s]]
    /\ last[s].stack[Len(last[s].stack)] = "missing"

\* C7 as claimed: map() runs on a copy of the sequence it is given: no step
\* of a stream changes a sequence the caller passed in, nor the state stack
\* of another stream.
C7_MapRunsOnCopy ==
  [][\A s \in Streams :
       (pc[s] = "running" /\ last'[s] # last[s]) =>
         /\ \A a \in DOMAIN arrays : arrays'[a] = passed[a]
         /\ \A other \in Streams \ {s} :
              arrays'[states[other]] = arrays[states[other]]]_vars

---------------------------------------------------------------------------
(* Properties of the Combiner.                                             *)

IsSTART(token) == token.v.name = Str("START")
IsEND(token) == token.v.name = Str("END")

\* the number of spans open after the first k tokens
RECURSIVE Depth(_, _)
Depth(tokens, k) ==
  IF k = 0 THEN 0
  ELSE Depth(tokens, k - 1)
       + (IF IsSTART(tokens[k]) THEN 1 ELSE IF IsEND(tokens[k]) THEN -1 ELSE 0)

Balanced(tokens) ==
  /\ \A k \in 1..Len(tokens) : Depth(tokens, k) >= 0
  /\ Depth(tokens, Len(tokens)) = 0

IsRegistered(cb, name) == \E i \in 1..Len(cb.rules) : Str(cb.rules[i][1]) = name

AllRegistered(cb, tokens) ==
  \A k \in 1..Len(tokens) : IsEND(tokens[k]) => IsRegistered(cb, tokens[k].v.value)

\* the END token that closes the span the START token at i opens
Closing(tokens, i) ==
  CHOOSE j \in (i + 1)..Len(tokens) :
    /\ IsEND(tokens[j])
    /\ Depth(tokens, j) = Depth(tokens, i) - 1
    /\ \A k \in i..(j - 1) : Depth(tokens, k) >= Depth(tokens, i)

\* the START token of the span the END token at j closes
Opening(tokens, j) ==
  CHOOSE i \in 1..(j - 1) : IsSTART(tokens[i]) /\ Closing(tokens, i) = j

\* the action registered under a name (the first, as findRule looks it up)
ActionNamed(cb, name) ==
  cb.rules[CHOOSE i \in 1..Len(cb.rules) :
             /\ Str(cb.rules[i][1]) = name
             /\ \A h \in 1..(i - 1) : Str(cb.rules[h][1]) # name][2]

\* Children: the tokens i..j of a balanced stretch, each span in it replaced
\* by its reduction.  Reduction: the token the rule named by the END token
\* at c gives for the children of the span i..c.
RECURSIVE Children(_, _, _, _)
RECURSIVE Reduction(_, _, _, _)
Children(cb, tokens, i, j) ==
  IF i > j THEN <<>>
  ELSE IF IsSTART(tokens[i])
       THEN << Reduction(cb, tokens, i, Closing(tokens, i)) >>
            \o Children(cb, tokens, Closing(tokens, i) + 1, j)
       ELSE << tokens[i] >> \o Children(cb, tokens, i + 1, j)

Reduction(cb, tokens, i, c) ==
  CombinerAction_call(ActionNamed(cb, tokens[c].v.value),
                      << Children(cb, tokens, i + 1, c - 1) >>)

IsPrefix(p, q) == Len(p) <= Len(q) /\ p = SubSeq(q, 1, Len(p))

\* the tokens a rule's action may return
MayReturn(action, name) ==
  IF action.kind = "const" THEN action.token.v.name = Str(name)
  ELSE action.name = name

NoRuleReturns(cb, name) ==
  \A i \in 1..Len(cb.rules) : ~MayReturn(cb.rules[i][2], name)

\* what C8 says of the tokens emitted from the input of the stream
SpansReplaced ==
  LET expected == Children(combiner, source._array, 1, Len(source._array)) IN
    /\ IsPrefix(emitted, expected)
    /\ source.position >= Len(source._array) => emitted = expected
    /\ source.position <= Len(source._array) => failure = ""
    /\ \A k \in 1..Len(emitted) : ~IsSTART(emitted[k]) /\ ~IsEND(emitted[k])

\* C8 as claimed: over a balanced input whose END values are all
\* registered, the stream emits the tokens outside all spans unchanged and
\* in order, one reduced token in place of each outermost span, and no
\* START or END token.
C8_SpansReplaced ==
  (Balanced(source._array) /\ AllRegistered(combiner, source._array))
  => SpansReplaced

\* C8 (amended): the same, for a Combiner none of whose rules returns a
\* token named START or END.
C8_SpansReplacedByPlainTokens ==
  (/\ Balanced(source._array)
   /\ AllRegistered(combiner, source._array)
   /\ NoRuleReturns(combiner, "START")
   /\ NoRuleReturns(combiner, "END"))
  => SpansReplaced

\* a token, a span and the EOF were all pulled, and three tokens came out
C8_Witness ==
  /\ Balanced(source._array)
  /\ AllRegistered(combiner, source._array)
  /\ NoRuleReturns(combiner, "START")
  /\ NoRuleReturns(combiner, "END")
  /\ source.position = Len(source._array)
  /\ emitted = << Token(Str("CHAR"), Str("A")),
                  Token(Str("STRING"), Str("AA")),
                  EOFToken >>

\* what C9 says of the reductions made so far
ReducedInnermostFirst ==
  /\ Len(reductions) =
       Cardinality({j \in 1..Min(source.position, Len(source._array)) :
                      IsEND(source._array[j])})
  /\ \A r \in 1..Len(reductions) :
       LET j == reductions[r].end IN
         /\ IsEND(source._array[j])
         /\ \A q \in 1..(r - 1) : reductions[q].end < j
         /\ reductions[r].name = source._array[j].v.value
         /\ reductions[r].tokens =
              << Children(combiner, source._array,
                          Opening(source._array, j) + 1, j - 1) >>

\* C9 as claimed: every span is reduced once, in the order of the END
\* tokens, and the list handed to its rule holds exactly the direct children
\* of the span in input order, each nested span replaced by the one token
\* its own reduction produced.
C9_InnermostFirst ==
  (Balanced(source._array) /\ AllRegistered(combiner, source._array))
  => ReducedInnermostFirst

\* C9 (amended): the same, for a Combiner none of whose rules returns a
\* token named START.
C9_InnermostFirstWithoutRestart ==
  (/\ Balanced(source._array)
   /\ AllRegistered(combiner, source._array)
   /\ NoRuleReturns(combiner, "START"))
  => ReducedInnermostFirst

\* an outer span was reduced whose list holds the token of a nested span
C9_Witness ==
  /\ Balanced(source._array)
  /\ AllRegistered(combiner, source._array)
  /\ NoRuleReturns(combiner, "START")
  /\ Len(reductions) = 2
  /\ reductions[1].name = Str("STRING")
  /\ reductions[1].tokens = << <<>> >>
  /\ reductions[2].tokens =
       << << Token(Str("CHAR"), Str("A")), Token(Str("STRING"), Str("")) >> >>
  /\ emitted = << Token(Str("ARRAY"), Arr(<< Str("A"), Str("") >>)) >>

\* the pending lists as they are when the token at place p is about to be
\* pulled in the call that starts now: what the call leaves when the array
\* ends before p
StackBefore(p) ==
  CombinerIterator_next(
    combiner,
    ArrayIterator(SubSeq(source._array, 1, p - 1), source.position),
    stack, reductions).stack

\* C10: a call of next() fails with `No combiner rule found` exactly when it
\* pulls an END token whose value is not registered, which ends the call:
\* nothing is emitted, the END token stays consumed and the list on top of
\* the pending stack is gone.
C10_UnknownRuleFails ==
  [][LET input == source._array
         p == source'.position
         unknown(k) == /\ IsEND(input[k])
                       /\ ~IsRegistered(combiner, input[k].v.value)
     IN source'.position > source.position =>
          /\ failure' = "No combiner rule found" <=> (p <= Len(input) /\ unknown(p))
          /\ \A k \in (source.position + 1)..Min(p - 1, Len(input)) : ~unknown(k)
          /\ failure' = "No combiner rule found" =>
               /\ emitted' = emitted
               /\ stack' = Array_pop(StackBefore(p)).array]_vars

\* the failing call had pulled tokens into a nested pending list, which the
\* failure dropped
C10_Witness ==
  /\ failure = "No combiner rule found"
  /\ Len(stack) = 1
  /\ source.position = 4
  /\ ~IsEND(source._array[3])


---------------------------------------------------------------------------
(* The in-memory iterators.                                                *)

\* the units of a resource at the indices [from, to), counted from 0
Units(res, from, to) == [i \in 1..(to - from) |-> res[from + i]]

IsChunked == memory.class \in ChunkedClasses

\* C11: peek(k) of a BufferIterator or StringIterator leaves position as it
\* was and returns the units at [position, min(position + k, size)), never
\* padded; a peek(k) repeated right after a peek(k) returns the same chunk.
C11_PeekIsPure ==
  [][(IsChunked /\ call'.op = "peek") =>
       /\ memory' = memory
       /\ call'.chunk =
            Units(resource(memory), memory.it.position,
                  Min(memory.it.position + call'.length, Chunked_size(memory)))
       /\ Len(call'.chunk) <= call'.length
       /\ (call.op = "peek" /\ call.length = call'.length)
            => call'.chunk = call.chunk]_vars

\* a peek(k) that was cut short by the end of the resource, made after the
\* iterator had moved
C11_Witness ==
  /\ IsChunked
  /\ call.op = "peek"
  /\ memory.it.position > memory.start
  /\ 0 < Len(call.chunk)
  /\ Len(call.chunk) < call.length

\* C12: next(k) returns the units at [position, position + min(k, N -
\* position)) and advances position by min(k, N - position); the chunks of
\* successive next calls concatenate to the resource between the position
\* before the first and the position after the last of them.
C12_NextAdvances ==
  IsChunked =>
    /\ call.op = "next" =>
         LET N == Chunked_size(memory)
             before == call.before.position
             n == Min(call.length, N - before)
         IN /\ call.chunk = Units(resource(memory), before, before + n)
            /\ memory.it.position = before + n
    /\ run.chunks = Units(resource(memory), run.start, memory.it.position)

\* two next calls in a row that both returned data, the second cut short
C12_Witness ==
  /\ IsChunked
  /\ call.op = "next"
  /\ 0 < Len(call.chunk)
  /\ Len(call.chunk) < call.length
  /\ Len(run.chunks) > Len(call.chunk)

C14_PositionWithinSize ==
  (IsChunked /\ memory.start = 0) =>
    /\ 0 <= memory.it.position
    /\ memory.it.position <= Chunked_size(memory)
    /\ (call.op \in {"next", "skip"}
          /\ call.before.position = Chunked_size(memory)) =>
         /\ call.chunk = <<>>
         /\ call.count = 0
         /\ memory.it.position = call.before.position

\* a skip(k) with k > 0 at the end of a non-empty resource
C14_Witness ==
  /\ IsChunked
  /\ memory.start = 0
  /\ call.op = "skip"
  /\ call.length > 0
  /\ Chunked_size(memory) > 0
  /\ call.before.position = Chunked_size(memory)

\* C15: the position of an ArrayIterator never exceeds the length of its
\* array, whatever next(), peek() and skip() calls were made.
C15_ArrayPositionWithinSize ==
  memory.class = "ArrayIterator" =>
    memory.it.position <= ArrayIterator_size(memory.it)

\* C16: peek() of an ArrayIterator returns the item at the current
\* position, the one an immediately following next() returns, and does not
\* move position.
C16_ArrayPeekIsNext ==
  [][(memory.class = "ArrayIterator" /\ call'.op = "peek") =>
       /\ memory' = memory
       /\ call'.value = ArrayIterator_next(memory.it).value]_vars

---------------------------------------------------------------------------
(* The Source-backed iterators and the Sources.                            *)

\* C17: over a Source that returns short counts at its end, and for every
\* block size, a SourceBufferIterator answers every peek, next and skip as
\* a BufferIterator over the same bytes does, and reports the same position
\* and size after every call.
C17_ReaderRefinesBufferIterator ==
  IsBufferReader =>
    /\ scall.chunk = scall.twin_chunk
    /\ scall.count = scall.twin_count
    /\ BufferedSourceReader_position(reader) = twin.position
    /\ BufferedSourceReader_size(file) = BufferIterator_size(twin)

\* a peek at a position beyond 0 that read blocks from the Source and left
\* bytes in the buffer beyond those it returned
C17_Witness ==
  /\ IsBufferReader
  /\ scall.op = "peek"
  /\ scall.position > 0
  /\ scall.chunk # <<>>
  /\ Len(reader._buffer) > Len(scall.chunk)
  /\ reader._position > scall.position + Len(scall.chunk)

\* C18: a SourceStringIterator over the encoding of a text T consumes, in
\* every call, exactly the bytes that encode the characters it returns or
\* skips: the characters taken so far are a prefix of T and the position is
\* the number of bytes that encode them, whatever the block size.
C18_CharactersSurviveBlocks ==
  IsStringReader =>
    /\ IsPrefix(taken, toString(file.bytes))
    /\ BufferedSourceReader_position(reader) = byteLength(taken)

\* C19: the position of a SourceStringIterator counts decoded characters,
\* as its unit is the character: next(n) advances position by the number
\* of characters in the string it returns, and skip(n) by the count it
\* returns, also when the text holds multi-byte characters.
C19_PositionCountsCharacters ==
  (IsStringReader /\ scall.op \in {"next", "skip"}) =>
    BufferedSourceReader_position(reader) - scall.position =
      (IF scall.op = "next" THEN Len(scall.chunk) ELSE scall.count)

\* C20: ArrayBufferSource.read(buffer, offset, length, position) never
\* throws because position + length exceeds the size; it returns the number
\* of bytes copied, min(length, max(0, size - position)), which is smaller
\* than length exactly when the end of the source was reached.
C20_ShortReadNeverThrows ==
  (file.class = "ArrayBufferSource" /\ scall.op = "read") =>
    /\ ~scall.threw
    /\ scall.count =
         Min(scall.length, Max(0, Source_size(file) - scall.position))
    /\ (scall.count < scall.length) <=>
         (scall.position + scall.length > Source_size(file))

\* the tokens of the input pulled so far
Pulled(src) == Min(src.position, Len(src._array))

\* C35: for a Combiner none of whose rules returns a START or END token,
\* over a balanced input, after every call of next() the depth of the
\* pending stack is the number of START tokens pulled less the number of
\* END tokens pulled, and a call returns a token only at depth 0.
C35_DepthIsSkew ==
  [][(/\ NoRuleReturns(combiner, "START")
      /\ NoRuleReturns(combiner, "END")
      /\ Balanced(source._array))
     => /\ Len(stack') = Depth(source._array, Pulled(source'))
        /\ emitted' # emitted =>
             /\ failure' = ""
             /\ Len(stack') = 0
             /\ Depth(source._array, Pulled(source')) = 0]_vars

\* a call pulled a span with a span nested in it, reduced both and
\* returned the token of the outer one
C35_Witness ==
  /\ NoRuleReturns(combiner, "START")
  /\ NoRuleReturns(combiner, "END")
  /\ Balanced(source._array)
  /\ failure = ""
  /\ Len(reductions) = 2
  /\ Len(emitted) = 1
  /\ source.position = 4
  /\ IsSTART(source._array[1]) /\ IsSTART(source._array[2])
  /\ stack = <<>>

\* the END token at place j closes a span whose START token has another
\* value
Mismatched(tokens, j) ==
  /\ IsEND(tokens[j])
  /\ tokens[Opening(tokens, j)].v.value # tokens[j].v.value

\* C36: an END token whose value differs from the value of the START token
\* of the span it closes raises no error: the tokens buffered for that span
\* are reduced by the rule registered under the value of the END token.
C36_MismatchedEndReduces ==
  (/\ Balanced(source._array)
   /\ AllRegistered(combiner, source._array)
   /\ NoRuleReturns(combiner, "START"))
  => \A j \in 1..Pulled(source) :
       Mismatched(source._array, j) =>
         /\ source.position = j => failure = ""
         /\ \E r \in 1..Len(reductions) :
              /\ reductions[r].end = j
              /\ reductions[r].name = source._array[j].v.value
              /\ reductions[r].tokens =
                   << Children(combiner, source._array,
                               Opening(source._array, j) + 1, j - 1) >>
              /\ reductions[r].token =
                   CombinerAction_call(
                     ActionNamed(combiner, source._array[j].v.value),
                     reductions[r].tokens)

\* a span opened by START:STRING that holds a token was closed by END:ARRAY
\* and came out as an ARRAY token
C36_Witness ==
  /\ Len(source._array) >= 3
  /\ source._array[1] = Token(Str("START"), Str("STRING"))
  /\ source._array[2] = Token(Str("CHAR"), Str("A"))
  /\ source._array[3] = Token(Str("END"), Str("ARRAY"))
  /\ source.position = 3
  /\ failure = ""
  /\ emitted = << Token(Str("ARRAY"), Arr(<< Str("A") >>)) >>

\* the consumer has just received its first EOF token: every token of the
\* input was pulled, once, and no list is pending
ReadToEOF ==
  /\ source.position = Len(source._array)
  /\ failure = ""
  /\ stack = <<>>
  /\ emitted # <<>>
  /\ emitted[Len(emitted)].v.name = Str("EOF")
  /\ \A k \in 1..(Len(emitted) - 1) : emitted[k].v.name # Str("EOF")

---------------------------------------------------------------------------
(* MachineState.read().                                                    *)

\* no rule of the table matches the window of the latest iteration
NoMachineRuleMatches ==
  \A j \in 1..Len(machine.rules) :
    match(mlog.input, machine.rules[j][1]) = <<>>

C22_NoMatchFails ==
  (mlog.step # "none" /\ NoMachineRuleMatches) =>
    /\ mlog.outcome = "throw Invalid language"
    /\ mpc = "threw"
    /\ machine.iterable.position = mlog.before
    /\ mout = <<>>

\* C23: when the peeked window is empty and the matching rule's callback
\* returns undefined, read() fails with 'EOF reached without termination'
\* and does not loop again.
C23_EOFWithoutTermination ==
  (mlog.step = "match" /\ Len(mlog.input) = 0 /\ mlog.result = Undefined) =>
    /\ mlog.outcome = "throw EOF"
    /\ mpc = "threw"
    /\ mout = <<>>

\* read() consumed the whole of a non-empty input and then met a rule
\* that matches the empty window and returns undefined
C23_Witness ==
  /\ mlog.step = "match"
  /\ mlog.before > 0
  /\ Len(mlog.input) = 0
  /\ mlog.callback = "ignore"
  /\ mpc = "threw"

\* read() ended at the step whose callback was pop(), returning the
\* accumulator as it was at that step
PopEndsState ==
  /\ mpc = "returned"
  /\ mout = <<mlog.value>>
  /\ machine.value = mlog.value

\* C24: when the matched rule's callback is pop(), read() ends
\* at that step and returns the accumulator, whatever value it holds.
C24_PopEndsState ==
  (mlog.step = "match" /\ mlog.callback = "pop") => PopEndsState

\* C39: read() on a state with a non-empty rule table, no iteration of
\* which kept parsing without consuming although its window was not empty,
\* has made at most size - position + 1 iterations of its loop, position
\* being the cursor at which read() was entered, and is still in its loop
\* after at most size - position of them: it has returned a value or
\* failed with one of the two errors by then.
C39_ReadTerminates ==
  (machine.rules # <<>> /\ ~mlog.stalled) =>
    LET most == StringIterator_size(machine.iterable) - mlog.entered + 1 IN
      /\ mlog.iteration <= most
      /\ mlog.iteration = most => mpc \in {"returned", "threw"}
      /\ mpc = "threw" =>
           mlog.outcome \in {"throw EOF", "throw Invalid language"}

\* read() was entered beyond the start of its input, consumed in every
\* iteration up to the end and left its loop in the last iteration the
\* bound allows
C39_Witness ==
  /\ machine.rules # <<>>
  /\ ~mlog.stalled
  /\ mlog.entered > 0
  /\ StringIterator_size(machine.iterable) - mlog.entered >= 2
  /\ mlog.iteration = StringIterator_size(machine.iterable) - mlog.entered + 1
  /\ mpc \in {"returned", "threw"}

---------------------------------------------------------------------------
(* Further properties of the Tokenizer.                                    *)

\* all the input from the cursor of the latest step of stream s onwards
Rest(s) ==
  slice(iterable[s]._string, last[s].before, Len(iterable[s]._string))

\* the latest step of stream s consulted a rule set, and the literal that
\* the first rule matching the rest of the input would take extends
\* beyond the peek window
LiteralBeyondWindow(s) ==
  /\ last[s].step \in {"match", "nomatch"}
  /\ LET rules == last[s].rules[1]
         k == FirstMatchingRule(rules, Rest(s), 1)
     IN /\ k # 0
        /\ matched_length(match(Rest(s), rules[k][1])) > tokenizer.peek_length

\* C25 as claimed: when the literal at the cursor is longer than peek_length
\* units, no rule matches and next() fails: no token is built from a prefix
\* of that literal.
C25_LongLiteralFails ==
  \A s \in Streams :
    LiteralBeyondWindow(s) =>
      /\ last[s].step = "nomatch"
      /\ last[s].outcome = "throw"

\* C25 (amended): when the literal at the cursor is longer than peek_length
\* units, the rules see the first peek_length units only; next() fails
\* exactly when no rule matches that window, and otherwise the first rule
\* matching the window runs on a prefix of the input of at most peek_length
\* units, which is all that is consumed.
C25_LongLiteralIsCutAtWindow ==
  \A s \in Streams :
    LiteralBeyondWindow(s) =>
      LET rules == last[s].rules[1]
          input == last[s].input
      IN /\ input = SubSeq(Rest(s), 1, tokenizer.peek_length)
         /\ last[s].step = "nomatch" <=>
              \A j \in 1..Len(rules) : match(input, rules[j][1]) = <<>>
         /\ last[s].step = "nomatch" =>
              /\ last[s].outcome = "throw"
              /\ iterable[s].position = last[s].before
         /\ last[s].step = "match" =>
              LET text == match(input, rules[last[s].i][1])[1] IN
                /\ Len(text) <= tokenizer.peek_length
                /\ IsPrefix(text, Rest(s))
                /\ iterable[s].position = last[s].before + Len(text)

\* a WORD token was returned whose text is the first peek_length units of
\* a longer run of word characters
C25_Witness ==
  \E s \in Streams :
    /\ LiteralBeyondWindow(s)
    /\ last[s].step = "match"
    /\ last[s].outcome = "return"
    /\ last[s].token.t = "object"
    /\ last[s].token.v.name = Str("WORD")
    /\ last[s].token.v.value = Str(Text(last[s].input))
    /\ Len(last[s].input) = tokenizer.peek_length

\* C32: in a matching step the cursor moves before the action runs: the
\* action is called with the iterator already at the position before the
\* step plus the length of the matched text, the step makes one skip, of
\* that length, and that is where the iterator stands after the step; a
\* step that matches nothing skips nothing.
C32_SkipBeforeAction ==
  \A s \in Streams :
    /\ last[s].step = "match" =>
         LET log == last[s]
             text == match(log.input, log.rules[1][log.i][1])[1]
         IN /\ log.called_at = log.before + Len(text)
            /\ log.skips = <<Len(text)>>
            /\ iterable[s].position = log.before + Len(text)
    /\ last[s].step # "match" => last[s].skips = <<>>

\* a step beyond the start of the input matched two or more units and
\* called its action
C32_Witness ==
  \E s \in Streams :
    /\ last[s].step = "match"
    /\ last[s].before > 0
    /\ last[s].skips # <<>>
    /\ last[s].skips[1] >= 2
    /\ last[s].called_at = iterable[s].position

\* no action of any rule of the Tokenizer pushes to or pops from the stack
NoActionMutates ==
  /\ \A j \in 1..Len(tokenizer.default_rules) :
       tokenizer.default_rules[j][2].effect = "none"
  /\ \A name \in DOMAIN tokenizer.state_rules :
       \A j \in 1..Len(tokenizer.state_rules[name]) :
         tokenizer.state_rules[name][j][2].effect = "none"

\* C33: the Tokenizer itself never pushes or pops: a step of next() in
\* which no action ran, or the action that ran does not mutate the stack,
\* leaves the state stack as it was, whether the step returns, loops or
\* fails; so with rules none of whose actions mutates the stack, the stack
\* is at all times the one the stream was created with.
C33_TokenizerLeavesStack ==
  [][\A s \in Streams :
       /\ (/\ pc[s] = "running"
           /\ last'[s].step = "match" =>
                last'[s].rules[1][last'[s].i][2].effect = "none")
          => arrays'[states[s]] = arrays[states[s]]
       /\ NoActionMutates => arrays'[states[s]] = passed[states[s]]]_vars

\* two or more calls returned tokens in a state that was on the stack from
\* the start, and the stack is still the one the stream was created with
C33_Witness ==
  \E s \in Streams :
    /\ calls[s] >= 2
    /\ Len(out[s]) >= 2
    /\ last[s].step = "match"
    /\ last[s].rules[1][last[s].i][2].effect = "none"
    /\ passed[states[s]] # <<>>
    /\ arrays[states[s]] = passed[states[s]]

\* the rule set of the state on top of the stack of stream s has the rule
\* /^$/ -> Token('EOF')
EOFRuleActive(s) ==
  LET rules == getRules(tokenizer, top(arrays[states[s]])) IN
    /\ rules # <<>>
    /\ \E j \in 1..Len(rules[1]) :
         /\ rules[1][j][1] = RE_EOF
         /\ rules[1][j][2].returns = "name"
         /\ rules[1][j][2].name = "EOF"

C27_UndefinedIsReturned ==
  \A s \in Streams :
    (last[s].step = "match" /\ last[s].token = Undefined) =>
      /\ last[s].outcome = "return"
      /\ pc[s] = "idle"
      /\ out[s] # <<>>
      /\ out[s][Len(out[s])] = Undefined

---------------------------------------------------------------------------
(* Properties of the functions of src/buffer.ts.                           *)

\* needle occurs in haystack at index i
Occurs(haystack, needle, i) ==
  /\ i + Len(needle) <= Len(haystack)
  /\ \A k \in 1..Len(needle) : haystack[i + k] = needle[k]

\* the fromIndex of the call: the number passed, or 0
FromIndex == IF bcall.numbers = <<>> THEN 0 ELSE bcall.numbers[1]

Occurrences ==
  { i \in FromIndex..Len(bcall.buffers[1]) :
      Occurs(bcall.buffers[1], bcall.buffers[2], i) }

\* C29: indexOf(haystack, needle, fromIndex) is the smallest index at or
\* after fromIndex at which needle occurs in haystack, and is undefined
\* exactly when there is no such index.
C29_IndexOfIsFirstOccurrence ==
  (bcall.fn = "indexOf" /\ bcall.done) =>
    IF Occurrences = {}
    THEN bcall.result = <<>>
    ELSE /\ bcall.result # <<>>
         /\ bcall.result[1] \in Occurrences
         /\ \A i \in Occurrences : bcall.result[1] <= i

\* buffer[start:end]: empty when end <= start
Slice(buffer, start, end) == SubSeq(buffer, start + 1, end)

\* C30: with the four bounds given, each inside its buffer, equalTo is true
\* exactly when left[left_offset:left_end] and right[right_offset:right_end]
\* have the same length and the same bytes.
C30_EqualToComparesSlices ==
  (bcall.fn = "equalTo" /\ bcall.done /\ Len(bcall.numbers) = 4) =>
    bcall.result =
      << Slice(bcall.buffers[1], bcall.numbers[1], bcall.numbers[2]) =
         Slice(bcall.buffers[2], bcall.numbers[3], bcall.numbers[4]) >>

\* C31: an end that is left out is the end of its buffer: equalTo(left,
\* right, left_offset) is true exactly when left[left_offset:] equals right,
\* and equalTo(left, right, left_offset, left_end, right_offset) exactly when
\* left[left_offset:left_end] equals right[right_offset:].
C31_OmittedEndIsEndOfBuffer ==
  (bcall.fn = "equalTo" /\ bcall.done) =>
    LET left == bcall.buffers[1]
        right == bcall.buffers[2]
        numbers == bcall.numbers
    IN /\ Len(numbers) = 1 =>
            bcall.result = << Slice(left, numbers[1], Len(left)) = right >>
       /\ Len(numbers) = 3 =>
            bcall.result =
              << Slice(left, numbers[1], numbers[2]) =
                 Slice(right, numbers[3], Len(right)) >>

---------------------------------------------------------------------------
(* Further properties of the Source-backed iterators.                      *)

\* the request in progress still needs more than buffer holds: bytes for a
\* SourceBufferIterator, decoded characters for a SourceStringIterator
StillNeeded(buffer) ==
  IF IsBufferReader
  THEN scall.length > Len(buffer)
  ELSE scall.length > Len(toString(buffer))

\* C38: within one peek, next or skip request every read is issued while
\* the buffer is shorter than needed and asks for block_size bytes; the
\* first read starts where the bytes already fetched end and each later one
\* where the read before it ended, after a read that returned a full block;
\* so nothing is read after a short read, the buffer holds the bytes of the
\* source in order without gap or repeat, and a request makes at most one
\* read more than the source has bytes.
C38_BlockReadsAreContiguous ==
  LET reads == reader._reads IN
    /\ \A k \in 1..Len(reads) :
         /\ StillNeeded(reads[k].buffer)
         /\ reads[k].length = reader._block_size
         /\ k = 1 =>
              reads[k].position = scall.position + Len(reads[k].buffer)
         /\ k > 1 =>
              /\ reads[k - 1].bytesRead = reader._block_size
              /\ reads[k].position =
                   reads[k - 1].position + reads[k - 1].bytesRead
              /\ reads[k].buffer =
                   reads[k - 1].buffer
                     \o Buffer_slice(file.bytes, reads[k - 1].position,
                                     reads[k].position)
    /\ Len(reads) <= Source_size(file) + 1

\* a request that found bytes in the buffer made two or more reads, the
\* last of them short
C38_Witness ==
  LET reads == reader._reads IN
    /\ Len(reads) >= 2
    /\ reads[1].buffer # <<>>
    /\ reads[Len(reads)].bytesRead < reader._block_size
    /\ reads[Len(reads)].position = Source_size(file)

---------------------------------------------------------------------------
(* attachState().                                                          *)

\* C40: a sub-state made by attachState holds the parent's iterator and the
\* parent's peek length; making it leaves the cursor where it was; and
\* after the sub-state's read() has returned, every peek of the parent
\* starts at or beyond the position where the sub-state stopped, the first
\* of them exactly there, with the window cut from that position.
C40_SubStateSharesIterator ==
  /\ child # <<>> =>
       /\ child[1].iterable = parent.iterable
       /\ child[1].peek_length = parent.peek_length
  /\ alog.event = "attachState" =>
       heap[parent.iterable].position = alog.before
  /\ (alog.event = "parent" /\ alog.stopped # <<>>) =>
       /\ alog.before >= alog.stopped[1]
       /\ alog.resumed =>
            /\ alog.before = alog.stopped[1]
            /\ alog.input =
                 slice(heap[parent.iterable]._string, alog.stopped[1],
                       alog.stopped[1] + parent.peek_length)

\* a sub-state consumed two characters or more, one of them into its
\* accumulator, and returned, and the parent's next peek found a non-empty
\* window
C40_Witness ==
  /\ alog.event = "parent"
  /\ alog.resumed
  /\ alog.stopped # <<>>
  /\ alog.stopped[1] >= 2
  /\ alog.input # <<>>
  /\ child # <<>>
  /\ child[1].value.t = "array"
  /\ Len(child[1].value.v) >= 1

===========================================================================
